---- MODULE Spec2Model ----
(***************************************************************************)
(* State-machine model of the conversation memory subsystem:               *)
(*   memory_system.py  MemoryDatabase (SQLite store) and MemoryManager     *)
(*                     (in-process facade),                                *)
(*   memory_server.py  MemoryServer (the same operations as remote tools), *)
(*   full_voice_human_llm_advanced.py  the chat loop and send_to_gemini,   *)
(*                     which call the facade around the LLM,               *)
(*   full_voice_human_llm_mcp.py  the chat loop that reaches the store     *)
(*                     through the tool client,                            *)
(*   full_voice_human_llm.py  the basic bot: the bounded in-memory history *)
(*                     and the recording state shared with the audio       *)
(*                     callback and the SIGINT handler.                    *)
(*                                                                         *)
(* Texts are sequences of one-character strings, so that LIKE matching,    *)
(* lower-casing, regular-expression search and len() are computed on the   *)
(* characters.  The fixed literals get_context emits (headings, prefixes,  *)
(* the separator and the closing instruction) are single elements of the   *)
(* output sequence.                                                        *)
(***************************************************************************)
EXTENDS Integers, Sequences, FiniteSets, TLC

VARIABLES
    conversations,     \* table conversations, rows in rowid order
    memory_summaries,  \* table memory_summaries (nothing ever inserts)
    user_profile,      \* table user_profile, rows in rowid order
    seq,               \* sqlite_sequence entry of conversations (AUTOINCREMENT)
    now,               \* the wall clock read by datetime.now()
    current_session,   \* MemoryManager.current_session / MemoryServer.current_session
    last,              \* the last call made and what it returned
    loop,              \* the chat loop: "running", or "ended" after a break
    connections,       \* sqlite3 connections opened by finished operations and not closed
    memory_available,  \* FullVoiceChatBotMCP.memory_available
    conversation_history, \* FullVoiceChatBot.conversation_history
    memory_file,       \* conversation_memory.json: whether it exists, the history it holds
    history_clock,     \* the clock read by add_to_conversation_history
    recording,         \* self.recording
    audio_data,        \* self.audio_data, the frames appended by the callback
    stream,            \* the sd.InputStream of record_audio: "closed" or "open"
    callback,          \* the audio callback thread: "idle", or "checked" after it read recording as true
    process            \* "running", or "exited" after sys.exit(0)

\* the basic bot's history and its file
history == <<conversation_history, memory_file, history_clock>>

\* the recording state shared by record_audio, the callback and the handler
audio == <<recording, audio_data, stream, callback, process>>

\* The state outside the tables, which the store operations never touch.
aside == <<connections, memory_available, history, audio>>

vars == <<conversations, memory_summaries, user_profile, seq, now, current_session, last, loop, aside>>

-----------------------------------------------------------------------------
(* Bounds of the model *)

MaxInserts == 3   \* number of INSERTs into conversations over a run
MaxTime == 3      \* the latest clock reading

-----------------------------------------------------------------------------
(* Characters and texts *)

Uppers == <<"A", "B", "C", "D", "E", "F", "G", "H", "I", "J", "K", "L", "M",
            "N", "O", "P", "Q", "R", "S", "T", "U", "V", "W", "X", "Y", "Z">>
Lowers == <<"a", "b", "c", "d", "e", "f", "g", "h", "i", "j", "k", "l", "m",
            "n", "o", "p", "q", "r", "s", "t", "u", "v", "w", "x", "y", "z">>

Range(s) == {s[i] : i \in 1..Len(s)}

Digits == {"0", "1", "2", "3", "4", "5", "6", "7", "8", "9"}

Min(a, b) == IF a < b THEN a ELSE b

Take(s, n) == SubSeq(s, 1, Min(n, Len(s)))

Reverse(s) == [i \in 1..Len(s) |-> s[Len(s) + 1 - i]]

\* the lower-case letter of each ASCII capital
AsciiLower == [c \in Range(Uppers) |-> Lowers[CHOOSE i \in 1..26 : Uppers[i] = c]]

\* str.lower() on one character: the 26 ASCII letters and the Spanish capital
\* letter outside ASCII.
LowerChar(c) ==
    IF c \in DOMAIN AsciiLower THEN AsciiLower[c]
    ELSE IF c = "Ñ" THEN "ñ" ELSE c

lower(t) == [i \in 1..Len(t) |-> LowerChar(t[i])]

\* The case folding of SQLite's LIKE: ASCII letters only.
LikeFold(c) == IF c \in DOMAIN AsciiLower THEN AsciiLower[c] ELSE c

\* \w and \d of the re module on str patterns.
WordChars == Range(Lowers) \cup Range(Uppers) \cup Digits \cup {"_", "ñ", "Ñ"}
IsWordChar(c) == c \in WordChars
IsDigit(c) == c \in Digits

\* sep.join(parts)
RECURSIVE Join(_, _)
Join(sep, parts) ==
    IF parts = <<>> THEN <<>>
    ELSE IF Len(parts) = 1 THEN parts[1]
    ELSE parts[1] \o sep \o Join(sep, Tail(parts))

-----------------------------------------------------------------------------
(* SQLite:  text LIKE pattern  (no ESCAPE clause) *)

\* the pattern from p[i] on matches the text from t[j] on: % stands for any
\* run of characters, _ for any one character, a letter for itself in either
\* case
RECURSIVE LikeFrom(_, _, _, _)
LikeFrom(p, t, i, j) ==
    IF i > Len(p) THEN j > Len(t)
    ELSE IF p[i] = "%"
         THEN LikeFrom(p, t, i + 1, j) \/ (j <= Len(t) /\ LikeFrom(p, t, i, j + 1))
    ELSE /\ j <= Len(t)
         /\ (p[i] = "_" \/ LikeFold(p[i]) = LikeFold(t[j]))
         /\ LikeFrom(p, t, i + 1, j + 1)

Like(p, t) == LikeFrom(p, t, 1, 1)

\* f'%{query}%'
LikePattern(query) == <<"%">> \o query \o <<"%">>

-----------------------------------------------------------------------------
(* re.search(pattern, s) for the patterns of _extract_profile_info: a      *)
(* literal, one group (\w+) or (\d+), and a literal after the group.       *)

Pat(pre, cls, post) == [pre |-> pre, cls |-> cls, post |-> post]

InClass(cls, c) == IF cls = "d" THEN IsDigit(c) ELSE IsWordChar(c)

MatchLit(lit, s, i) ==
    /\ i + Len(lit) - 1 <= Len(s)
    /\ SubSeq(s, i, i + Len(lit) - 1) = lit

\* length of the longest run of characters of the class that starts at s[j]
RECURSIVE RunLen(_, _, _)
RunLen(cls, s, j) ==
    IF j > Len(s) \/ ~InClass(cls, s[j]) THEN 0 ELSE 1 + RunLen(cls, s, j + 1)

\* the group lengths with which the pattern matches at position i
GroupLens(pat, s, i) ==
    IF ~MatchLit(pat.pre, s, i) THEN {}
    ELSE {k \in 1..RunLen(pat.cls, s, i + Len(pat.pre)) :
            MatchLit(pat.post, s, i + Len(pat.pre) + k)}

Max(S) == CHOOSE x \in S : \A y \in S : y <= x

NoMatch == <<"None">>

\* match.group(1) of the leftmost match, the group taken greedily
re_search(pat, s) ==
    LET starts == {i \in 1..Len(s) : GroupLens(pat, s, i) # {}}
    IN  IF starts = {} THEN NoMatch
        ELSE LET i == CHOOSE x \in starts : \A y \in starts : x <= y
                 k == Max(GroupLens(pat, s, i))
             IN  SubSeq(s, i + Len(pat.pre), i + Len(pat.pre) + k - 1)

-----------------------------------------------------------------------------
(* MemoryDatabase *)

\* id INTEGER PRIMARY KEY without AUTOINCREMENT: the new row gets one more
\* than the largest id in the table
db_store_conversation_MaxRowid(convs, lastid, clock, user_msg, assistant_msg, session_id, importance) ==
    Append(convs, [id |-> IF convs = <<>> THEN 1 ELSE convs[Len(convs)].id + 1,
                   timestamp |-> clock,
                   session_id |-> session_id,
                   user_message |-> user_msg,
                   assistant_response |-> assistant_msg,
                   importance_score |-> importance])

\* INSERT INTO conversations ...: the new row gets the next AUTOINCREMENT id
\* and datetime.now() as its timestamp.
db_store_conversation(convs, lastid, clock, user_msg, assistant_msg, session_id, importance) ==
    Append(convs, [id |-> lastid + 1,
                   timestamp |-> clock,
                   session_id |-> session_id,
                   user_message |-> user_msg,
                   assistant_response |-> assistant_msg,
                   importance_score |-> importance])

\* cursor.lastrowid after the INSERT: the id of the row just added
lastrowid(convs) == convs[Len(convs)].id

\* the dict built from one fetched row
RowDict(row) == [timestamp |-> row.timestamp,
                 user |-> row.user_message,
                 assistant |-> row.assistant_response,
                 importance |-> row.importance_score]

\* All orders in which SELECT ... ORDER BY can deliver the rows `sel` (a set
\* of positions in the table): sorted by the ORDER BY terms, rows that tie on
\* every term in any order.  <<i, j>> \in before says row i sorts strictly
\* before row j.
Orderings(sel, before) ==
    LET ord[S \in SUBSET sel] ==
            IF S = {} THEN {<<>>}
            ELSE LET first == {i \in S : \A j \in S : <<j, i>> \notin before}
                 IN  UNION {{<<i>> \o p : p \in ord[S \ {i}]} : i \in first}
    IN  ord[sel]

\* LIMIT n, for the limits n >= 0 the calls are made with
Limit(p, n) == Take(p, n)

\* ORDER BY timestamp ASC instead
RecentBefore_Ascending(r1, r2) == r1.timestamp < r2.timestamp

\* WHERE session_id = ? ORDER BY timestamp DESC LIMIT ?
RecentBefore(r1, r2) == r1.timestamp > r2.timestamp

RecentOrderings(convs, session_id) ==
    LET sel == {i \in 1..Len(convs) : convs[i].session_id = session_id}
    IN  Orderings(sel, {x \in sel \X sel : RecentBefore(convs[x[1]], convs[x[2]])})

RecentFetches(convs, limit, session_id) ==
    {Limit(p, limit) : p \in RecentOrderings(convs, session_id)}

\* WHERE user_message LIKE ? OR assistant_response LIKE ?
\* ORDER BY importance_score DESC, timestamp DESC LIMIT ?
SearchWhere(row, query) ==
    \/ Like(LikePattern(query), row.user_message)
    \/ Like(LikePattern(query), row.assistant_response)

\* ORDER BY timestamp DESC alone
SearchBefore_TimestampOnly(r1, r2) == r1.timestamp > r2.timestamp

SearchBefore(r1, r2) ==
    \/ r1.importance_score > r2.importance_score
    \/ /\ r1.importance_score = r2.importance_score
       /\ r1.timestamp > r2.timestamp

SearchOrderings(convs, query) ==
    LET sel == {i \in 1..Len(convs) : SearchWhere(convs[i], query)}
    IN  Orderings(sel, {x \in sel \X sel : SearchBefore(convs[x[1]], convs[x[2]])})

SearchFetches(convs, query, limit) ==
    {Limit(p, limit) : p \in SearchOrderings(convs, query)}

\* the list of dicts made from fetched positions
Dicts(convs, fetched) == [i \in 1..Len(fetched) |-> RowDict(convs[fetched[i]])]

\* INSERT OR IGNORE instead: a key already stored keeps its row
db_update_user_profile_Ignore(profile, key, value) ==
    IF \E i \in 1..Len(profile) : profile[i].key = key
    THEN profile
    ELSE Append(profile, [key |-> key, value |-> value])

\* INSERT OR REPLACE INTO user_profile: a row with the same key is deleted,
\* the new row is added at the end of the table.  (No statement selects
\* last_updated; the column is left out.)
db_update_user_profile(profile, key, value) ==
    SelectSeq(profile, LAMBDA r : r.key # key)
        \o <<[key |-> key, value |-> value]>>

\* dict(cursor.fetchall()) over SELECT key, value: a later pair with the same
\* key replaces the value and keeps the key's place.
RECURSIVE DictOf(_, _)
DictOf(d, rows) ==
    IF rows = <<>> THEN d
    ELSE LET r == Head(rows)
             d1 == IF \E i \in 1..Len(d) : d[i][1] = r.key
                   THEN [i \in 1..Len(d) |->
                           IF d[i][1] = r.key THEN <<r.key, r.value>> ELSE d[i]]
                   ELSE Append(d, <<r.key, r.value>>)
         IN  DictOf(d1, Tail(rows))

db_get_user_profile(profile) == DictOf(<<>>, profile)

\* DELETE ... WHERE session_id = 'default' instead
db_clear_memory_DefaultOnly(table) == SelectSeq(table, LAMBDA r : r.session_id # "default")

\* DELETE FROM <table>
db_clear_memory(table) == <<>>

-----------------------------------------------------------------------------
(* MemoryManager / MemoryServer: profile extraction *)

\* the patterns dict, in insertion order
patterns == <<
    [type |-> "name",
     rules |-> <<Pat(<<"m", "i", " ", "n", "o", "m", "b", "r", "e", " ", "e", "s", " ">>, "w", <<>>),
                 Pat(<<"m", "e", " ", "l", "l", "a", "m", "o", " ">>, "w", <<>>),
                 Pat(<<"s", "o", "y", " ">>, "w", <<>>)>>],
    [type |-> "age",
     rules |-> <<Pat(<<"t", "e", "n", "g", "o", " ">>, "d", <<" ", "a", "ñ", "o", "s">>),
                 Pat(<<"m", "i", " ", "e", "d", "a", "d", " ", "e", "s", " ">>, "d", <<>>)>>],
    [type |-> "profession",
     rules |-> <<Pat(<<"s", "o", "y", " ">>, "w", <<>>),
                 Pat(<<"t", "r", "a", "b", "a", "j", "o", " ", "c", "o", "m", "o", " ">>, "w", <<>>),
                 Pat(<<"e", "s", "t", "u", "d", "i", "o", " ">>, "w", <<>>)>>],
    [type |-> "location",
     rules |-> <<Pat(<<"v", "i", "v", "o", " ", "e", "n", " ">>, "w", <<>>),
                 Pat(<<"s", "o", "y", " ", "d", "e", " ">>, "w", <<>>)>>] >>

\* the inner loop without its break: every matching rule upserts, the last
\* one's capture stays
RECURSIVE FirstMatch_NoBreak(_, _)
FirstMatch_NoBreak(rules, msg_lower) ==
    IF rules = <<>> THEN NoMatch
    ELSE LET value == re_search(Head(rules), msg_lower)
             later == FirstMatch_NoBreak(Tail(rules), msg_lower)
         IN  IF later # NoMatch THEN later ELSE value

\* the inner loop: the capture of the first rule of the list that matches
RECURSIVE FirstMatch(_, _)
FirstMatch(rules, msg_lower) ==
    IF rules = <<>> THEN NoMatch
    ELSE LET value == re_search(Head(rules), msg_lower)
         IN  IF value # NoMatch THEN value ELSE FirstMatch(Tail(rules), msg_lower)

\* the outer loop left at the first type that has a match
RECURSIVE UpsertCalls_StopAtFirst(_, _)
UpsertCalls_StopAtFirst(types, msg_lower) ==
    IF types = <<>> THEN <<>>
    ELSE LET value == FirstMatch(Head(types).rules, msg_lower)
         IN  IF value # NoMatch
             THEN << <<Head(types).type, value>> >>
             ELSE UpsertCalls_StopAtFirst(Tail(types), msg_lower)

\* the outer loop: every type is tried, a match is upserted at once.  The
\* update_user_profile calls the loop makes, as (info_type, value), in order.
RECURSIVE UpsertCalls(_, _)
UpsertCalls(types, msg_lower) ==
    IF types = <<>> THEN <<>>
    ELSE LET value == FirstMatch(Head(types).rules, msg_lower)
         IN  (IF value # NoMatch THEN << <<Head(types).type, value>> >> ELSE <<>>)
             \o UpsertCalls(Tail(types), msg_lower)

\* a store that rewrites the whole profile from the facts of its utterance
ApplyUpserts_Resetting(profile, calls) ==
    [i \in 1..Len(calls) |-> [key |-> calls[i][1], value |-> calls[i][2]]]

\* the table after the calls, each committed on its own connection
RECURSIVE ApplyUpserts(_, _)
ApplyUpserts(profile, calls) ==
    IF calls = <<>> THEN profile
    ELSE ApplyUpserts(db_update_user_profile(profile, Head(calls)[1], Head(calls)[2]),
                      Tail(calls))


-----------------------------------------------------------------------------
(* MemoryManager.get_context / MemoryServer._get_context *)

ProfileHeading == "Información del usuario: "
RecentHeading == "Conversación reciente:"
RelevantHeading == "Conversaciones relevantes anteriores:"
UserPrefix == "Usuario: "
AssistantPrefix == "Asistente: "
CurrentPrefix == "\n\nUsuario actual: "
InstructionSuffix == "\n\nResponde al usuario actual teniendo en cuenta toda la información anterior:"

\* the session the recency query of get_context runs on: the call passes no
\* session_id, so the parameter's default applies
DefaultSession == "default"

SearchThreshold == 10

\* len(current_message) >= 10 instead
ShouldSearch_AtLeast(current_message) == Len(current_message) >= SearchThreshold

\* if len(current_message) > 10:  # Only search for meaningful messages
ShouldSearch(current_message) == Len(current_message) > SearchThreshold

\* search_conversations(current_message, limit=2)
RelevantLimit == 2

\* the context_limit parameter's default
DefaultContextLimit == 5

\* recent[-3:]
LastThree(s) == SubSeq(s, IF Len(s) > 3 THEN Len(s) - 2 ELSE 1, Len(s))

\* ", ".join([f"{k}: {v}" for k, v in profile.items()])
ProfileText(profile) ==
    Join(<<", ">>, [i \in 1..Len(profile) |-> <<profile[i][1], ": ">> \o profile[i][2]])

\* the two lines appended for each conv of the list
ConvLines(convs) ==
    [i \in 1..2 * Len(convs) |->
        IF i % 2 = 1 THEN <<UserPrefix>> \o convs[(i + 1) \div 2].user
                     ELSE <<AssistantPrefix>> \o convs[i \div 2].assistant]

\* the parts without the `if profile:` block
ContextParts_NoProfile(profile, recent, relevant) ==
    (IF recent # <<>>
     THEN << <<RecentHeading>> >> \o ConvLines(Reverse(LastThree(recent)))
     ELSE <<>>)
    \o (IF relevant # <<>>
        THEN << <<RelevantHeading>> >> \o ConvLines(relevant)
        ELSE <<>>)

\* context_parts, given the fetched lists (relevant is <<>> when no search ran)
ContextParts(profile, recent, relevant) ==
    (IF profile # <<>> THEN << <<ProfileHeading>> \o ProfileText(profile) >> ELSE <<>>)
    \o (IF recent # <<>>
        THEN << <<RecentHeading>> >> \o ConvLines(Reverse(LastThree(recent)))
        ELSE <<>>)
    \o (IF relevant # <<>>
        THEN << <<RelevantHeading>> >> \o ConvLines(relevant)
        ELSE <<>>)

\* the suffix appended whether or not there are parts
BuildContext_AlwaysSuffix(profile, recent, relevant, current_message) ==
    Join(<<"\n">>, ContextParts(profile, recent, relevant))
        \o <<CurrentPrefix>> \o current_message \o <<InstructionSuffix>>

BuildContext(profile, recent, relevant, current_message) ==
    LET context == Join(<<"\n">>, ContextParts(profile, recent, relevant))
    IN  IF context # <<>>
        THEN context \o <<CurrentPrefix>> \o current_message \o <<InstructionSuffix>>
        ELSE current_message

-----------------------------------------------------------------------------
(* The calls made on the store and the values they are made with *)

Soy_Ana == <<"S", "o", "y", " ", "A", "n", "a">>
Hola_Ana == <<"H", "o", "l", "a", " ", "A", "n", "a">>
soy_de_lima == <<"s", "o", "y", " ", "d", "e", " ", "l", "i", "m", "a">>
soy_de_rio == <<"s", "o", "y", " ", "d", "e", " ", "r", "i", "o">>
Hola == <<"H", "o", "l", "a">>
Juan == <<"J", "u", "a", "n">>
Luis == <<"L", "u", "i", "s">>
Buenos_dias == <<"B", "u", "e", "n", "o", "s", " ", "d", "i", "a", "s">>
Mi_nombre_es_Juan == <<"M", "i", " ", "n", "o", "m", "b", "r", "e", " ", "e", "s", " ",
                       "J", "u", "a", "n">>
Hola_Juan == <<"H", "o", "l", "a", " ", "J", "u", "a", "n">>
Tengo_25_anos == <<"T", "e", "n", "g", "o", " ", "2", "5", " ", "a", "ñ", "o", "s">>
Que_interesante == <<"Q", "u", "é", " ", "i", "n", "t", "e", "r", "e", "s", "a", "n", "t", "e">>
Soy_Luis_me_llamo_Ana == <<"S", "o", "y", " ", "L", "u", "i", "s", ",", " ",
                           "m", "e", " ", "l", "l", "a", "m", "o", " ", "A", "n", "a">>

\* the user messages the calls are made with
Utterances == {Soy_Ana, soy_de_lima, soy_de_rio, Hola, Buenos_dias, Mi_nombre_es_Juan,
               Tengo_25_anos, Soy_Luis_me_llamo_Ana}

\* the calls of the extractor for each of them, computed once
UpsertTable == [m \in Utterances |-> UpsertCalls(patterns, lower(m))]

\* the update_user_profile calls _extract_profile_info(user_message) makes
ExtractorCalls(user_message) ==
    IF user_message \in Utterances THEN UpsertTable[user_message]
    ELSE UpsertCalls(patterns, lower(user_message))

extract_profile_info(profile, user_message) ==
    ApplyUpserts(profile, ExtractorCalls(user_message))

\* importance, in tenths: 1.0 is the parameter's default
DefaultImportance == 10

\* the store_conversation calls made directly on the database:
\* (user_msg, assistant_msg, session_id, importance)
StoreCalls == {<<Soy_Ana, Hola, DefaultSession, DefaultImportance>>,
               <<Soy_Ana, Hola_Ana, "test_session", DefaultImportance>>,
               <<soy_de_lima, Hola, DefaultSession, 15>>,
               <<Hola, Hola_Ana, "test_session", 15>>}

\* search queries: a word stored in another case, in the user message of
\* some rows and the response of others; a query with a LIKE wildcard
Queries == {<<"a", "n", "a">>, <<"s", "_", "y">>}

Sessions == {DefaultSession, "test_session"}

Limits == 1..2

\* The record kept of the last call: its arguments, the rows its queries
\* fetched (recent: by recency, relevant: by search), whether it ran the
\* search, the rows its statement deleted or replaced, and what it returned.
Call(op, args, recent, relevant, searched, removed, result) ==
    [op |-> op, args |-> args, recent |-> recent, relevant |-> relevant,
     searched |-> searched, removed |-> removed, result |-> result]

Rows(convs, fetched) == [i \in 1..Len(fetched) |-> convs[fetched[i]]]

Init ==
    /\ conversations = <<>>
    /\ memory_summaries = <<>>
    /\ user_profile = <<>>
    /\ seq = 0
    /\ now = 0
    /\ current_session = "20250101_120000"
    /\ last = Call("init", <<>>, <<>>, <<>>, FALSE, <<>>, <<>>)
    /\ loop = "running"
    /\ connections = 0
    /\ memory_available = FALSE
    /\ conversation_history = <<>>
    /\ memory_file = [exists |-> FALSE, conversation_history |-> <<>>]
    /\ history_clock = 0
    /\ recording = FALSE
    /\ audio_data = <<>>
    /\ stream = "closed"
    /\ callback = "idle"
    /\ process = "running"

\* the readings datetime.now() can give after the reading `clock`: the same
\* value again, or a later one
Readings(clock) == {t \in {clock, clock + 1} : t <= MaxTime}

\* a trimming insert instead: the table keeps the two newest rows
DbStoreConversation_Trimming(bound, calls) ==
    \E c \in calls, t \in Readings(now) :
        /\ seq < bound
        /\ conversations' =
              LET all == db_store_conversation(conversations, seq, t, c[1], c[2], c[3], c[4])
              IN  SubSeq(all, Max({1, Len(all) - 1}), Len(all))
        /\ seq' = seq + 1
        /\ now' = t
        /\ last' = Call("db_store_conversation", c, <<>>, <<>>, FALSE, <<>>,
                        lastrowid(conversations'))
        /\ UNCHANGED <<memory_summaries, user_profile, current_session, loop, aside>>

\* MemoryDatabase.store_conversation(user_msg, assistant_msg, session_id, importance)
DbStoreConversation(bound, calls) ==
    \E c \in calls, t \in Readings(now) :
        /\ seq < bound
        /\ conversations' = db_store_conversation(conversations, seq, t, c[1], c[2], c[3], c[4])
        /\ seq' = seq + 1
        /\ now' = t
        /\ last' = Call("db_store_conversation", c, <<>>, <<>>, FALSE, <<>>,
                        lastrowid(conversations'))
        /\ UNCHANGED <<memory_summaries, user_profile, current_session, loop, aside>>

\* MemoryDatabase.get_recent_conversations(limit, session_id)
GetRecentConversations(limits, sessions) ==
    \E s \in sessions, limit \in limits :
        \E f \in RecentFetches(conversations, limit, s) :
            /\ last' = Call("get_recent_conversations", <<limit, s>>,
                            Rows(conversations, f), <<>>, FALSE, <<>>, Dicts(conversations, f))
            /\ UNCHANGED <<conversations, memory_summaries, user_profile, seq, now, current_session, loop, aside>>

\* MemoryDatabase.search_conversations(query, limit)
SearchConversations(queries, limits) ==
    \E q \in queries, limit \in limits :
        \E f \in SearchFetches(conversations, q, limit) :
            /\ last' = Call("search_conversations", <<q, limit>>,
                            <<>>, Rows(conversations, f), TRUE, <<>>, Dicts(conversations, f))
            /\ UNCHANGED <<conversations, memory_summaries, user_profile, seq, now, current_session, loop, aside>>

\* MemoryDatabase.update_user_profile(key, value)
UpdateUserProfile(keys, values) ==
    \E k \in keys, v \in values :
        /\ user_profile' = db_update_user_profile(user_profile, k, v)
        /\ last' = Call("update_user_profile", <<k, v>>, <<>>, <<>>, FALSE,
                        SelectSeq(user_profile, LAMBDA r : r.key = k), <<>>)
        /\ UNCHANGED <<conversations, memory_summaries, seq, now, current_session, loop, aside>>

\* MemoryDatabase.get_user_profile()
GetUserProfile ==
    /\ last' = Call("get_user_profile", <<>>, <<>>, <<>>, FALSE, <<>>,
                    db_get_user_profile(user_profile))
    /\ UNCHANGED <<conversations, memory_summaries, user_profile, seq, now, current_session, loop, aside>>

\* MemoryManager.clear_memory() -> MemoryDatabase.clear_memory()
ClearMemory ==
    /\ conversations' = db_clear_memory(conversations)
    /\ memory_summaries' = db_clear_memory(memory_summaries)
    /\ last' = Call("clear_memory", <<>>, <<>>, <<>>, FALSE, conversations,
                    "Memory cleared successfully")
    /\ UNCHANGED <<user_profile, seq, now, current_session, loop, aside>>

\* the arguments a clear_memory request comes with: none, or the flag set
ClearArguments == {<<>>, << <<"confirm", FALSE>> >>, << <<"confirm", TRUE>> >>}

\* args.get(key, default) on a dict given as its items
ArgsGet(args, key, default) ==
    IF \E i \in 1..Len(args) : args[i][1] = key
    THEN args[CHOOSE i \in 1..Len(args) : args[i][1] = key][2]
    ELSE default

\* args.get("confirm", True) instead
Confirm_DefaultTrue(args) == ArgsGet(args, "confirm", TRUE)

\* confirm = args.get("confirm", False)
Confirm(args) == ArgsGet(args, "confirm", FALSE)

\* MemoryServer._clear_memory(args)
ToolClearMemory ==
    \E args \in ClearArguments :
        IF ~Confirm(args)
        THEN /\ last' = Call("tool_clear_memory", args, <<>>, <<>>, FALSE, <<>>,
                             "Memory clear cancelled - confirmation required")
             /\ UNCHANGED <<conversations, memory_summaries, user_profile, seq, now, current_session, loop, aside>>
        ELSE /\ conversations' = <<>>
             /\ memory_summaries' = <<>>
             /\ last' = Call("tool_clear_memory", args, <<>>, <<>>, FALSE, conversations,
                             "Memory cleared successfully")
             /\ UNCHANGED <<user_profile, seq, now, current_session, loop, aside>>

\* MemoryManager.store_conversation(user_message, assistant_response, importance)
\* and MemoryServer._store_conversation: the extractor's upserts, then the
\* insert under the instance's session
StoreConversation(bound, turns) ==
    \E e \in turns, t \in Readings(now) :
        /\ seq < bound
        /\ user_profile' = extract_profile_info(user_profile, e[1])
        /\ conversations' = db_store_conversation(conversations, seq, t, e[1], e[2],
                                                  current_session, e[3])
        /\ seq' = seq + 1
        /\ now' = t
        /\ last' = Call("store_conversation", e, <<>>, <<>>, FALSE, <<>>,
                        <<"Stored conversation #", lastrowid(conversations'), " successfully">>)
                   @@ [upserts |-> ExtractorCalls(e[1])]
        /\ UNCHANGED <<memory_summaries, current_session, loop, aside>>

\* The same call statement by statement.  Each upsert and the insert commit
\* on a connection of their own, so another reader of the database file sees
\* the states between them.  While a call is under way `last` holds it with
\* the number of upserts made so far.
Running(e, done) ==
    Call("store_conversation (running)", e, <<>>, <<>>, FALSE, <<>>, <<>>)
        @@ [upserts |-> ExtractorCalls(e[1]), done |-> done]

Idle == last.op # "store_conversation (running)"

\* store_conversation is entered and the extractor has made its matches
StoreCallBegins(bound, turns) ==
    \E e \in turns :
        /\ Idle
        /\ seq < bound
        /\ last' = Running(e, 0)
        /\ UNCHANGED <<conversations, memory_summaries, user_profile, seq, now, current_session, loop, aside>>

\* the next update_user_profile of the extractor's loop
StoreCallUpserts ==
    /\ ~Idle
    /\ last.done < Len(last.upserts)
    /\ user_profile' = db_update_user_profile(user_profile, last.upserts[last.done + 1][1],
                                              last.upserts[last.done + 1][2])
    /\ last' = Running(last.args, last.done + 1)
    /\ UNCHANGED <<conversations, memory_summaries, seq, now, current_session, loop, aside>>

\* an insert that does not wait for the extractor
InsertReady_BeforeExtraction(call) == call.done = 0

\* the insert is reached when _extract_profile_info has returned
InsertReady(call) == call.done = Len(call.upserts)

\* db.store_conversation and the return of the status text
StoreCallInserts ==
    \E t \in Readings(now) :
        /\ ~Idle
        /\ InsertReady(last)
        /\ conversations' = db_store_conversation(conversations, seq, t, last.args[1], last.args[2],
                                                  current_session, last.args[3])
        /\ seq' = seq + 1
        /\ now' = t
        /\ last' = Call("store_conversation", last.args, <<>>, <<>>, FALSE, <<>>,
                        <<"Stored conversation #", lastrowid(conversations'), " successfully">>)
                   @@ [upserts |-> last.upserts, done |-> last.done]
        /\ UNCHANGED <<memory_summaries, user_profile, current_session, loop, aside>>

\* a get_context that runs the extractor on the current message
GetContext_Extracting(messages, limits) ==
    \E m \in messages, context_limit \in limits :
        \E rec \in RecentFetches(conversations, context_limit, DefaultSession) :
            \E rel \in (IF ShouldSearch(m)
                        THEN SearchFetches(conversations, m, RelevantLimit)
                        ELSE {<<>>}) :
                /\ user_profile' = extract_profile_info(user_profile, m)
                /\ last' = Call("get_context", <<m, context_limit>>,
                                Rows(conversations, rec), Rows(conversations, rel),
                                ShouldSearch(m), <<>>,
                                BuildContext(db_get_user_profile(user_profile),
                                             Dicts(conversations, rec),
                                             Dicts(conversations, rel), m))
                /\ UNCHANGED <<conversations, memory_summaries, seq, now,
                               current_session, loop, aside>>

\* MemoryManager.get_context(current_message, context_limit) and
\* MemoryServer._get_context
GetContext(messages, limits) ==
    \E m \in messages, context_limit \in limits :
        \E rec \in RecentFetches(conversations, context_limit, DefaultSession) :
            \E rel \in (IF ShouldSearch(m)
                        THEN SearchFetches(conversations, m, RelevantLimit)
                        ELSE {<<>>}) :
                /\ last' = Call("get_context", <<m, context_limit>>,
                                Rows(conversations, rec), Rows(conversations, rel),
                                ShouldSearch(m), <<>>,
                                BuildContext(db_get_user_profile(user_profile),
                                             Dicts(conversations, rec),
                                             Dicts(conversations, rel), m))
                /\ UNCHANGED <<conversations, memory_summaries, user_profile, seq, now,
                               current_session, loop, aside>>

\* json.dumps(profile, indent=2, ensure_ascii=False) of a dict that is not
\* empty, for keys and values without quotes, backslashes or control
\* characters
JsonDumps(profile) ==
    <<"{", "\n">>
    \o Join(<<",", "\n">>,
            [i \in 1..Len(profile) |->
                <<"  ", "\"", profile[i][1], "\"", ": ", "\"">> \o profile[i][2] \o <<"\"">>])
    \o <<"\n", "}">>

\* MemoryManager.get_profile() and MemoryServer._get_profile
GetProfile ==
    /\ last' = Call("get_profile", <<>>, <<>>, <<>>, FALSE, <<>>,
                    LET profile == db_get_user_profile(user_profile)
                    IN  IF profile = <<>> THEN "No profile information stored"
                        ELSE JsonDumps(profile))
    /\ UNCHANGED <<conversations, memory_summaries, user_profile, seq, now, current_session, loop, aside>>

\* the text search_memory builds from the rows found: three lines per row
SearchText(results) ==
    IF results = <<>> THEN "No conversations found"
    ELSE Join(<<"\n">>,
              [i \in 1..(3 * Len(results)) |->
                  LET conv == results[(i + 2) \div 3]
                  IN  CASE i % 3 = 1 -> <<"[", conv.timestamp, "] ", "Usuario: ">> \o conv.user
                        [] i % 3 = 2 -> <<"Asistente: ">> \o conv.assistant
                        [] OTHER -> <<"---">>])

\* MemoryManager.search_memory(query, limit) and MemoryServer._search_memory
SearchMemory(queries, limits) ==
    \E q \in queries, limit \in limits :
        \E f \in SearchFetches(conversations, q, limit) :
            /\ last' = Call("search_memory", <<q, limit>>,
                            <<>>, Rows(conversations, f), TRUE, <<>>,
                            SearchText(Dicts(conversations, f)))
            /\ UNCHANGED <<conversations, memory_summaries, user_profile, seq, now, current_session, loop, aside>>

\* MemoryManager.update_profile(key, value) and MemoryServer._update_profile
UpdateProfile(keys, values) ==
    \E k \in keys, v \in values :
        /\ user_profile' = db_update_user_profile(user_profile, k, v)
        /\ last' = Call("update_profile", <<k, v>>, <<>>, <<>>, FALSE,
                        SelectSeq(user_profile, LAMBDA r : r.key = k),
                        <<"Updated profile: ", k, " = ">> \o v)
        /\ UNCHANGED <<conversations, memory_summaries, seq, now, current_session, loop, aside>>

-----------------------------------------------------------------------------
(* The six operations as calls of MemoryManager and as tools of MemoryServer. *)
(* A call is given by its name and its arguments, a dict written as the       *)
(* sequence of its items; what it can lead to is a set of outcomes: the       *)
(* tables, the counter and the clock after it and the text returned (a        *)
(* literal is a text of one element).                                         *)

Outcome(convs, summaries, profile, lastid, clock, text) ==
    [conversations |-> convs, memory_summaries |-> summaries, user_profile |-> profile,
     seq |-> lastid, now |-> clock, text |-> text]

\* an outcome that changes nothing
Reads(text) == Outcome(conversations, memory_summaries, user_profile, seq, now, text)

StoredText(convs) == <<"Stored conversation #", lastrowid(convs), " successfully">>

ContextTexts(current_message, context_limit) ==
    {BuildContext(db_get_user_profile(user_profile), Dicts(conversations, rec),
                  Dicts(conversations, rel), current_message) :
        rec \in RecentFetches(conversations, context_limit, DefaultSession),
        rel \in (IF ShouldSearch(current_message)
                 THEN SearchFetches(conversations, current_message, RelevantLimit)
                 ELSE {<<>>})}

SearchTexts(query, limit) ==
    {LET results == Dicts(conversations, f)
     IN  IF results = <<>> THEN <<SearchText(results)>> ELSE SearchText(results) :
        f \in SearchFetches(conversations, query, limit)}

ProfileText_Json ==
    LET profile == db_get_user_profile(user_profile)
    IN  IF profile = <<>> THEN <<"No profile information stored">> ELSE JsonDumps(profile)

\* the defaults of the parameters of MemoryManager's methods
FacadeSearchLimit == 5

\* MemoryManager.<name>(**arguments)
FacadeOutcomes(name, arguments) ==
    CASE name = "store_conversation" ->
            {LET convs == db_store_conversation(conversations, seq, t,
                                               ArgsGet(arguments, "user_message", <<>>),
                                               ArgsGet(arguments, "assistant_response", <<>>),
                                               current_session,
                                               ArgsGet(arguments, "importance", DefaultImportance))
             IN  Outcome(convs, memory_summaries,
                         extract_profile_info(user_profile, ArgsGet(arguments, "user_message", <<>>)),
                         seq + 1, t, StoredText(convs)) :
                t \in Readings(now)}
      [] name = "get_context" ->
            {Reads(text) : text \in ContextTexts(ArgsGet(arguments, "current_message", <<>>),
                                                 ArgsGet(arguments, "context_limit", DefaultContextLimit))}
      [] name = "search_memory" ->
            {Reads(text) : text \in SearchTexts(ArgsGet(arguments, "query", <<>>),
                                                ArgsGet(arguments, "limit", FacadeSearchLimit))}
      [] name = "update_profile" ->
            {Outcome(conversations, memory_summaries,
                     db_update_user_profile(user_profile, ArgsGet(arguments, "key", ""),
                                            ArgsGet(arguments, "value", <<>>)),
                     seq, now,
                     <<"Updated profile: ", ArgsGet(arguments, "key", ""), " = ">>
                         \o ArgsGet(arguments, "value", <<>>))}
      [] name = "get_profile" -> {Reads(ProfileText_Json)}
      [] name = "clear_memory" ->
            {Outcome(db_clear_memory(conversations), db_clear_memory(memory_summaries),
                     user_profile, seq, now, <<"Memory cleared successfully">>)}

\* MemoryServer.list_tools: the names of the tools, in the order listed
ToolNames == <<"store_conversation", "get_context", "search_memory", "update_profile",
               "get_profile", "clear_memory">>

\* a default of 0.5 for the importance of the store_conversation tool
ToolImportance_Half == DefaultImportance \div 2

\* the defaults the tools read with args.get: importance 1.0 (in tenths),
\* context_limit 5, limit 5
ToolImportance == 10
ToolContextLimit == 5
ToolSearchLimit == 5

\* MemoryServer.call_tool(request): the handler of the tool named, or the
\* text for a name that is none of the six
ToolOutcomes(name, arguments) ==
    CASE name = "store_conversation" ->
            {LET user_msg == ArgsGet(arguments, "user_message", <<>>)
                 assistant_msg == ArgsGet(arguments, "assistant_response", <<>>)
                 importance == ArgsGet(arguments, "importance", ToolImportance)
                 convs == db_store_conversation(conversations, seq, t, user_msg, assistant_msg,
                                                current_session, importance)
             IN  Outcome(convs, memory_summaries, extract_profile_info(user_profile, user_msg),
                         seq + 1, t, StoredText(convs)) :
                t \in Readings(now)}
      [] name = "get_context" ->
            {Reads(text) : text \in ContextTexts(ArgsGet(arguments, "current_message", <<>>),
                                                 ArgsGet(arguments, "context_limit", ToolContextLimit))}
      [] name = "search_memory" ->
            {Reads(text) : text \in SearchTexts(ArgsGet(arguments, "query", <<>>),
                                                ArgsGet(arguments, "limit", ToolSearchLimit))}
      [] name = "update_profile" ->
            LET key == ArgsGet(arguments, "key", "")
                value == ArgsGet(arguments, "value", <<>>)
            IN  {Outcome(conversations, memory_summaries,
                         db_update_user_profile(user_profile, key, value), seq, now,
                         <<"Updated profile: ", key, " = ">> \o value)}
      [] name = "get_profile" -> {Reads(ProfileText_Json)}
      [] name = "clear_memory" ->
            IF ~Confirm(arguments)
            THEN {Reads(<<"Memory clear cancelled - confirmation required">>)}
            ELSE {Outcome(<<>>, <<>>, user_profile, seq, now, <<"Memory cleared successfully">>)}
      [] OTHER -> {Reads(<<"Unknown tool: ", name>>)}

\* a request handled by MemoryServer.call_tool
CallTool(bound, requests) ==
    \E r \in requests :
        \E o \in ToolOutcomes(r[1], r[2]) :
            /\ o.seq <= bound
            /\ conversations' = o.conversations
            /\ memory_summaries' = o.memory_summaries
            /\ user_profile' = o.user_profile
            /\ seq' = o.seq
            /\ now' = o.now
            /\ last' = Call("call_tool", r, <<>>, <<>>, FALSE, <<>>, o.text)
            /\ UNCHANGED <<current_session, loop, aside>>

\* the same call made on MemoryManager in the process
CallFacade(bound, requests) ==
    \E r \in {x \in requests : x[1] \in Range(ToolNames)} :
        \E o \in FacadeOutcomes(r[1], r[2]) :
            /\ o.seq <= bound
            /\ conversations' = o.conversations
            /\ memory_summaries' = o.memory_summaries
            /\ user_profile' = o.user_profile
            /\ seq' = o.seq
            /\ now' = o.now
            /\ last' = Call("call_facade", r, <<>>, <<>>, FALSE, <<>>, o.text)
            /\ UNCHANGED <<current_session, loop, aside>>

-----------------------------------------------------------------------------
(* Calls in which a statement of the store fails *)

\* the exception a failing statement raises out of sqlite3
StorageError == "sqlite3.Error"

\* the two ways a call ends
Raised(e) == [outcome |-> "raise", value |-> e]
Returned(text) == [outcome |-> "return", value |-> text]

\* MemoryManager is called in process, MemoryServer through call_tool
Surfaces == {"facade", "tool"}

\* an `except Exception: pass` around the call: it returns None
Failure_Swallowed(surface, e) == Returned(<<"None">>)

\* How a call that raised e inside ends for its caller.  No method of
\* MemoryManager has a try: the exception leaves the method.  call_tool
\* catches it, logs it and returns the text f"Error: {str(e)}".
Failure(surface, e) ==
    IF surface = "tool" THEN Returned(<<"Error: ", e>>) ELSE Raised(e)

\* the record of a call that failed: the statement that failed and the
\* update_user_profile calls committed before it
FailedCall(op, surface, args, fault, upserts) ==
    Call(op, args, <<>>, <<>>, FALSE, <<>>, Failure(surface, StorageError))
        @@ [surface |-> surface, fault |-> fault, upserts |-> upserts]

\* store_conversation when a statement fails: upsert number j of the
\* extractor, the ones before it being committed, or (j past the last upsert)
\* the INSERT.  The exception leaves _extract_profile_info and
\* store_conversation; no row is inserted.
StoreConversationFails(turns) ==
    \E e \in turns, surface \in Surfaces :
        LET calls == ExtractorCalls(e[1])
        IN  \E j \in 1..(Len(calls) + 1) :
                /\ user_profile' = ApplyUpserts(user_profile, SubSeq(calls, 1, j - 1))
                /\ last' = FailedCall("store_conversation", surface, e,
                                      IF j <= Len(calls) THEN "extract" ELSE "insert",
                                      SubSeq(calls, 1, j - 1))
                /\ UNCHANGED <<conversations, memory_summaries, seq, now, current_session, loop, aside>>

\* get_context when one of its SELECTs fails
GetContextFails(messages, limits) ==
    \E m \in messages, context_limit \in limits, surface \in Surfaces :
        /\ last' = FailedCall("get_context", surface, <<m, context_limit>>, "select", <<>>)
        /\ UNCHANGED <<conversations, memory_summaries, user_profile, seq, now,
                       current_session, loop, aside>>

\* search_memory when its SELECT fails
SearchMemoryFails(queries, limits) ==
    \E q \in queries, limit \in limits, surface \in Surfaces :
        /\ last' = FailedCall("search_memory", surface, <<q, limit>>, "select", <<>>)
        /\ UNCHANGED <<conversations, memory_summaries, user_profile, seq, now,
                       current_session, loop, aside>>

\* update_profile when its INSERT OR REPLACE fails
UpdateProfileFails(keys, values) ==
    \E k \in keys, v \in values, surface \in Surfaces :
        /\ last' = FailedCall("update_profile", surface, <<k, v>>, "upsert", <<>>)
        /\ UNCHANGED <<conversations, memory_summaries, user_profile, seq, now,
                       current_session, loop, aside>>

\* get_profile when its SELECT fails
GetProfileFails ==
    \E surface \in Surfaces :
        /\ last' = FailedCall("get_profile", surface, <<>>, "select", <<>>)
        /\ UNCHANGED <<conversations, memory_summaries, user_profile, seq, now,
                       current_session, loop, aside>>

\* clear_memory (the tool's with confirm=true) when a DELETE or the commit
\* fails: the connection's context manager rolls the transaction back
ClearMemoryFails ==
    \E surface \in Surfaces :
        /\ last' = FailedCall("clear_memory", surface,
                              IF surface = "tool" THEN << <<"confirm", TRUE>> >> ELSE <<>>,
                              "delete", <<>>)
        /\ UNCHANGED <<conversations, memory_summaries, user_profile, seq, now,
                       current_session, loop, aside>>

-----------------------------------------------------------------------------
(* FullVoiceChatBotAdvanced: one round of the chat loop for a transcription *)
(* that is no command, through send_to_gemini                              *)

\* the exception generate_content (or reading response.text) raises
\* the words the loop takes as commands, compared with transcription.lower()
ClearCommands == {<<"b", "o", "r", "r", "a", "r", " ", "m", "e", "m", "o", "r", "i", "a">>,
                  <<"l", "i", "m", "p", "i", "a", "r", " ", "m", "e", "m", "o", "r", "i", "a">>,
                  <<"r", "e", "s", "e", "t", "e", "a", "r", " ", "m", "e", "m", "o", "r", "i", "a">>}
ProfileCommands == {<<"m", "o", "s", "t", "r", "a", "r", " ", "p", "e", "r", "f", "i", "l">>,
                    <<"m", "i", " ", "p", "e", "r", "f", "i", "l">>,
                    <<"p", "e", "r", "f", "i", "l", " ", "u", "s", "u", "a", "r", "i", "o">>}
ExitCommands == {<<"s", "a", "l", "i", "r">>, <<"a", "d", "i", "ó", "s">>,
                 <<"h", "a", "s", "t", "a", " ", "l", "u", "e", "g", "o">>, <<"c", "h", "a", "o">>}

\* a comparison with the transcription as it is, without lower()
CommandKind_CaseSensitive(transcription) ==
    IF transcription \in ClearCommands THEN "clear"
    ELSE IF transcription \in ProfileCommands THEN "profile"
    ELSE IF transcription \in ExitCommands THEN "exit"
    ELSE "none"

\* the branch of the loop a transcription takes: the three tests in their
\* order, each on transcription.lower(); "none" goes to send_to_gemini
CommandKind(transcription) ==
    IF lower(transcription) \in ClearCommands THEN "clear"
    ELSE IF lower(transcription) \in ProfileCommands THEN "profile"
    ELSE IF lower(transcription) \in ExitCommands THEN "exit"
    ELSE "none"

LlmError == "llm error"

\* the two diagnostic texts of send_to_gemini, without the sign (a warning
\* sign, a cross mark) each begins with
NoResponse == "No se recibió respuesta"
ErrorPrefix == "Error: "

IsSpace(c) == c \in {" ", "\n", "\t"}

\* str.strip()
Strip(t) ==
    LET keep == {i \in 1..Len(t) : ~IsSpace(t[i])}
    IN  IF keep = {} THEN <<>>
        ELSE SubSeq(t, CHOOSE i \in keep : \A j \in keep : i <= j, Max(keep))

\* a round that reported a failure leaves the loop
LoopAfter_StopOnFailure(round) ==
    IF round \in {"exit", "failed"} THEN "ended" ELSE "running"

\* the loop after a round: only the exit words (and Ctrl+C) break; a round
\* that answered or reported a failure goes on to the next input
LoopAfter(round) == IF round = "exit" THEN "ended" ELSE "running"

\* the record of a round: the transcription, what get_context fetched, the
\* statement of the store that failed if one did, whether and how the LLM
\* answered, the prompt it was given, and the response shown and spoken
Turn(message, recent, relevant, fault, llm, prompt, response) ==
    Call("turn", <<message>>, recent, relevant, ShouldSearch(message), <<>>, response)
        @@ [fault |-> fault, llm |-> llm, prompt |-> prompt]

\* a SELECT of get_context fails: the exception leaves get_context and is
\* caught by send_to_gemini's except, generate_content is not reached
ChatTurnContextFails(messages) ==
    \E m \in messages :
        /\ loop = "running"
        /\ CommandKind(m) = "none"
        /\ last' = Turn(m, <<>>, <<>>, "context", "not called", <<>>,
                        <<ErrorPrefix, StorageError>>)
        /\ loop' = LoopAfter("failed")
        /\ UNCHANGED <<conversations, memory_summaries, user_profile, seq, now, current_session, aside>>

\* a round that stores the exchange with the diagnostic text as the response
ChatTurnLlmFails_Storing(messages) ==
    \E m \in messages, llm \in {"raise", "empty"}, t \in Readings(now) :
        /\ loop = "running"
        /\ user_profile' = extract_profile_info(user_profile, m)
        /\ conversations' = db_store_conversation(conversations, seq, t, m, <<NoResponse>>,
                                                  current_session, DefaultImportance)
        /\ seq' = seq + 1
        /\ now' = t
        /\ last' = Turn(m, <<>>, <<>>, "none", llm, <<>>, <<NoResponse>>)
        /\ loop' = LoopAfter("failed")
        /\ UNCHANGED <<memory_summaries, current_session, aside>>

\* generate_content raises, or response.text is empty
ChatTurnLlmFails(messages) ==
    \E m \in messages, llm \in {"raise", "empty"} :
        \E rec \in RecentFetches(conversations, DefaultContextLimit, DefaultSession) :
            \E rel \in (IF ShouldSearch(m)
                        THEN SearchFetches(conversations, m, RelevantLimit)
                        ELSE {<<>>}) :
                /\ loop = "running"
                /\ CommandKind(m) = "none"
                /\ last' = Turn(m, Rows(conversations, rec), Rows(conversations, rel),
                                "none", llm,
                                BuildContext(db_get_user_profile(user_profile),
                                             Dicts(conversations, rec),
                                             Dicts(conversations, rel), m),
                                IF llm = "empty" THEN <<NoResponse>>
                                                 ELSE <<ErrorPrefix, LlmError>>)
                /\ loop' = LoopAfter("failed")
                /\ UNCHANGED <<conversations, memory_summaries, user_profile, seq, now,
                               current_session, aside>>

\* the LLM answers with a text and the exchange is stored
ChatTurnAnswered(bound, messages, texts) ==
    \E m \in messages, text \in texts, t \in Readings(now) :
        \E rec \in RecentFetches(conversations, DefaultContextLimit, DefaultSession) :
            \E rel \in (IF ShouldSearch(m)
                        THEN SearchFetches(conversations, m, RelevantLimit)
                        ELSE {<<>>}) :
                /\ loop = "running"
                /\ CommandKind(m) = "none"
                /\ seq < bound
                /\ text # <<>>
                /\ user_profile' = extract_profile_info(user_profile, m)
                /\ conversations' = db_store_conversation(conversations, seq, t, m, Strip(text),
                                                          current_session, DefaultImportance)
                /\ seq' = seq + 1
                /\ now' = t
                /\ last' = Turn(m, Rows(conversations, rec), Rows(conversations, rel),
                                "none", "text",
                                BuildContext(db_get_user_profile(user_profile),
                                             Dicts(conversations, rec),
                                             Dicts(conversations, rel), m),
                                Strip(text))
                /\ loop' = LoopAfter("answered")
                /\ UNCHANGED <<memory_summaries, current_session, aside>>

\* the LLM answers with a text and a statement of store_conversation fails:
\* upsert number j of the extractor or the INSERT
ChatTurnStoreFails(messages, texts) ==
    \E m \in messages, text \in texts :
        \E rec \in RecentFetches(conversations, DefaultContextLimit, DefaultSession) :
            \E rel \in (IF ShouldSearch(m)
                        THEN SearchFetches(conversations, m, RelevantLimit)
                        ELSE {<<>>}) :
                \E j \in 1..(Len(ExtractorCalls(m)) + 1) :
                    /\ loop = "running"
                    /\ CommandKind(m) = "none"
                    /\ text # <<>>
                    /\ user_profile' = ApplyUpserts(user_profile,
                                                    SubSeq(ExtractorCalls(m), 1, j - 1))
                    /\ last' = Turn(m, Rows(conversations, rec), Rows(conversations, rel),
                                    IF j <= Len(ExtractorCalls(m)) THEN "extract" ELSE "insert",
                                    "text",
                                    BuildContext(db_get_user_profile(user_profile),
                                                 Dicts(conversations, rec),
                                                 Dicts(conversations, rel), m),
                                    <<ErrorPrefix, StorageError>>)
                    /\ loop' = LoopAfter("failed")
                    /\ UNCHANGED <<conversations, memory_summaries, seq, now, current_session, aside>>

\* 'salir' typed at the prompt, or an exit word said: break
ChatExit ==
    /\ loop = "running"
    /\ last' = Call("exit", <<>>, <<>>, <<>>, FALSE, <<>>, <<>>)
    /\ loop' = LoopAfter("exit")
    /\ UNCHANGED <<conversations, memory_summaries, user_profile, seq, now, current_session, aside>>

-----------------------------------------------------------------------------
(* The rounds of the chat loop whose transcription is a command *)

ClearAnnouncement == "He borrado la memoria de nuestra conversación. Empezamos de nuevo."
NoProfileResponse == "Aún no tengo información guardada sobre ti. Cuéntame algo sobre ti."
Goodbye == "¡Hasta luego! Ha sido un placer hablar contigo."
UnexpectedPrefix == "Error inesperado: "

\* json.loads of a text written by JsonDumps: the items of the dict in order
JsonLoads(text) ==
    LET starts == {i \in 1..Len(text) : text[i] = "  "}
        s == [n \in 1..Cardinality(starts) |->
                 CHOOSE i \in starts : Cardinality({j \in starts : j < i}) = n - 1]
        closing(i) == CHOOSE j \in (i + 6)..Len(text) :
                          /\ text[j] = "\""
                          /\ \A k \in (i + 6)..(j - 1) : text[k] # "\""
    IN  [n \in 1..Len(s) |-> <<text[s[n] + 2], SubSeq(text, s[n] + 6, closing(s[n]) - 1)>>]

\* the sentence the loop makes of the profile for speech
ProfileSpeech(profile_dict) ==
    <<"Lo que sé sobre ti: ">>
    \o Join(<<", ">>,
            [i \in 1..Len(profile_dict) |->
                LET key == profile_dict[i][1]
                    value == profile_dict[i][2]
                IN  CASE key = "name" -> <<"Tu nombre es ">> \o value
                      [] key = "age" -> <<"tienes ">> \o value \o <<" años">>
                      [] key = "profession" -> <<"estudias ">> \o value
                      [] OTHER -> <<"tu ", key, " es ">> \o value])
    \o <<".">>

\* the response of the show-profile branch for what get_profile returned
ProfileResponse(profile_data) ==
    IF profile_data = "No profile information stored" THEN <<NoProfileResponse>>
    ELSE ProfileSpeech(JsonLoads(profile_data))

\* the record of a round that took a command branch
Command(bot, kind, transcription, fault, removed, response) ==
    Call("command", <<transcription>>, <<>>, <<>>, FALSE, removed, response)
        @@ [bot |-> bot, kind |-> kind, fault |-> fault, llm |-> "not called", prompt |-> <<>>]

\* FullVoiceChatBotAdvanced, a clear word: memory.clear_memory(), then the
\* announcement, and the loop continues
ChatClearCommand(transcriptions) ==
    \E tr \in transcriptions :
        /\ loop = "running"
        /\ CommandKind(tr) = "clear"
        /\ conversations' = db_clear_memory(conversations)
        /\ memory_summaries' = db_clear_memory(memory_summaries)
        /\ last' = Command("advanced", "clear", tr, "none", conversations, <<ClearAnnouncement>>)
        /\ loop' = LoopAfter("answered")
        /\ UNCHANGED <<user_profile, seq, now, current_session, aside>>

\* a DELETE of clear_memory fails: the transaction is rolled back, the
\* exception leaves the branch before the announcement and is caught by the
\* loop's except, which prints it
ChatClearCommandFails(transcriptions) ==
    \E tr \in transcriptions :
        /\ loop = "running"
        /\ CommandKind(tr) = "clear"
        /\ last' = Command("advanced", "clear", tr, "delete", <<>>,
                           <<UnexpectedPrefix, StorageError>>)
        /\ loop' = LoopAfter("failed")
        /\ UNCHANGED <<conversations, memory_summaries, user_profile, seq, now, current_session, aside>>

\* a profile word: memory.get_profile(), spoken as a sentence
ChatProfileCommand(transcriptions) ==
    \E tr \in transcriptions :
        /\ loop = "running"
        /\ CommandKind(tr) = "profile"
        /\ last' = Command("advanced", "profile", tr, "none", <<>>,
                           LET profile == db_get_user_profile(user_profile)
                           IN  ProfileResponse(IF profile = <<>>
                                               THEN "No profile information stored"
                                               ELSE JsonDumps(profile)))
        /\ loop' = LoopAfter("answered")
        /\ UNCHANGED <<conversations, memory_summaries, user_profile, seq, now, current_session, aside>>

\* an exit word said: the goodbye, then break
ChatExitCommand(transcriptions) ==
    \E tr \in transcriptions :
        /\ loop = "running"
        /\ CommandKind(tr) = "exit"
        /\ last' = Command("advanced", "exit", tr, "none", <<>>, <<Goodbye>>)
        /\ loop' = LoopAfter("exit")
        /\ UNCHANGED <<conversations, memory_summaries, user_profile, seq, now, current_session, aside>>

\* FullVoiceChatBotMCP.init_mcp_connection: the client is made and the memory
\* marked available, unless making it raises
InitMcpConnection ==
    /\ last.op = "init"
    /\ memory_available' \in {TRUE, FALSE}
    /\ last' = Call("init_mcp_connection", <<>>, <<>>, <<>>, FALSE, <<>>, <<>>)
    /\ UNCHANGED <<conversations, memory_summaries, user_profile, seq, now, current_session,
                   loop, connections, history, audio>>

\* how a clear_memory request of the client ends: the server ran the tool,
\* the server caught an error of the store and returned it as text, or the
\* client raised
McpOutcomes == {"done", "error text", "raise"}

\* FullVoiceChatBotMCP, a clear word: clear_memory_mcp(), which returns
\* without a call when the memory is not available and catches what the call
\* raises, then the announcement
McpClearCommand(transcriptions) ==
    \E tr \in transcriptions, outcome \in McpOutcomes :
        LET called == memory_available
            cleared == called /\ outcome = "done"
        IN  /\ CommandKind(tr) = "clear"
            /\ last.op # "init"
            /\ conversations' = IF cleared THEN <<>> ELSE conversations
            /\ memory_summaries' = IF cleared THEN <<>> ELSE memory_summaries
            /\ last' = Command("mcp", "clear", tr,
                               IF ~called THEN "not available"
                               ELSE IF cleared THEN "none" ELSE outcome,
                               IF cleared THEN conversations ELSE <<>>,
                               <<ClearAnnouncement>>)
            /\ UNCHANGED <<user_profile, seq, now, current_session, loop, aside>>

-----------------------------------------------------------------------------
(* MemoryDatabase: the connection each operation opens *)

MaxConnections == 3   \* connections left open at a time

\* `with sqlite3.connect(path) as conn:` commits on a normal exit of the
\* block and rolls back on an exception; it does not close.  No operation
\* calls conn.close(): the connection is closed when the object is finalized,
\* which the runtime does at the return, or later (a collection of garbage,
\* the release of a kept traceback).  The number of connections open once
\* the operation has ended, of which `open` were open before it:
AfterOperation(open) == {c \in {open, open + 1} : c <= MaxConnections}

\* store_conversation with its connection
ConnStoreConversation(bound, calls) ==
    \E c \in calls, t \in Readings(now), after \in AfterOperation(connections) :
        /\ seq < bound
        /\ conversations' = db_store_conversation(conversations, seq, t, c[1], c[2], c[3], c[4])
        /\ seq' = seq + 1
        /\ now' = t
        /\ connections' = after
        /\ last' = Call("db_store_conversation", c, <<>>, <<>>, FALSE, <<>>,
                        lastrowid(conversations'))
        /\ UNCHANGED <<memory_summaries, user_profile, current_session, loop,
                       memory_available, history, audio>>

\* get_recent_conversations with its connection
ConnGetRecentConversations(limits, sessions) ==
    \E s \in sessions, limit \in limits, after \in AfterOperation(connections) :
        \E f \in RecentFetches(conversations, limit, s) :
            /\ connections' = after
            /\ last' = Call("get_recent_conversations", <<limit, s>>,
                            Rows(conversations, f), <<>>, FALSE, <<>>, Dicts(conversations, f))
            /\ UNCHANGED <<conversations, memory_summaries, user_profile, seq, now,
                           current_session, loop, memory_available, history, audio>>

\* search_conversations with its connection
ConnSearchConversations(queries, limits) ==
    \E q \in queries, limit \in limits, after \in AfterOperation(connections) :
        \E f \in SearchFetches(conversations, q, limit) :
            /\ connections' = after
            /\ last' = Call("search_conversations", <<q, limit>>,
                            <<>>, Rows(conversations, f), TRUE, <<>>, Dicts(conversations, f))
            /\ UNCHANGED <<conversations, memory_summaries, user_profile, seq, now,
                           current_session, loop, memory_available, history, audio>>

\* update_user_profile with its connection
ConnUpdateUserProfile(keys, values) ==
    \E k \in keys, v \in values, after \in AfterOperation(connections) :
        /\ user_profile' = db_update_user_profile(user_profile, k, v)
        /\ connections' = after
        /\ last' = Call("update_user_profile", <<k, v>>, <<>>, <<>>, FALSE,
                        SelectSeq(user_profile, LAMBDA r : r.key = k), <<>>)
        /\ UNCHANGED <<conversations, memory_summaries, seq, now, current_session, loop,
                       memory_available, history, audio>>

\* get_user_profile with its connection
ConnGetUserProfile ==
    \E after \in AfterOperation(connections) :
        /\ connections' = after
        /\ last' = Call("get_user_profile", <<>>, <<>>, <<>>, FALSE, <<>>,
                        db_get_user_profile(user_profile))
        /\ UNCHANGED <<conversations, memory_summaries, user_profile, seq, now,
                       current_session, loop, memory_available, history, audio>>

\* clear_memory with its connection
ConnClearMemory ==
    \E after \in AfterOperation(connections) :
        /\ conversations' = db_clear_memory(conversations)
        /\ memory_summaries' = db_clear_memory(memory_summaries)
        /\ connections' = after
        /\ last' = Call("clear_memory", <<>>, <<>>, <<>>, FALSE, conversations, <<>>)
        /\ UNCHANGED <<user_profile, seq, now, current_session, loop,
                       memory_available, history, audio>>

\* an operation whose statement fails: the block is left by the exception,
\* the transaction rolled back, and the traceback refers to the connection
\* for as long as the exception is kept
ConnOperationFails(ops) ==
    \E op \in ops, after \in AfterOperation(connections) :
        /\ connections' = after
        /\ last' = Call(op, <<>>, <<>>, <<>>, FALSE, <<>>, Raised(StorageError))
        /\ UNCHANGED <<conversations, memory_summaries, user_profile, seq, now,
                       current_session, loop, memory_available, history, audio>>

\* the runtime finalizes connections no longer referred to, which closes them
FinalizeConnections ==
    \E c \in 0..(connections - 1) :
        /\ connections' = c
        /\ UNCHANGED <<conversations, memory_summaries, user_profile, seq, now,
                       current_session, last, loop, memory_available, history, audio>>

-----------------------------------------------------------------------------
(* FullVoiceChatBot (the basic bot): the history kept in memory and in its file *)

MaxExchanges == 11   \* exchanges added over a run

max_history_length == 10

\* exchanges of the history that build_context_prompt uses
ContextExchanges == 5

\* history[-n:]
LastN(h, n) == IF Len(h) > n THEN SubSeq(h, Len(h) - n + 1, Len(h)) ELSE h

\* a trim that keeps the oldest exchanges, history[:max_history_length]
TrimHistory_KeepOldest(h) ==
    IF Len(h) > max_history_length THEN SubSeq(h, 1, max_history_length) ELSE h

\* if len(history) > max_history_length: history = history[-max_history_length:]
TrimHistory(h) ==
    IF Len(h) > max_history_length THEN LastN(h, max_history_length) ELSE h

RECURSIVE ExchangeLines(_)
ExchangeLines(exchanges) ==
    IF exchanges = <<>> THEN <<>>
    ELSE <<"Usuario: ">> \o Head(exchanges).user \o <<"\n">>
         \o <<"Asistente: ">> \o Head(exchanges).assistant \o <<"\n\n">>
         \o ExchangeLines(Tail(exchanges))

\* build_context_prompt(current_message)
build_context_prompt(h, current_message) ==
    IF h = <<>> THEN current_message
    ELSE <<"Contexto de la conversación anterior:\n">>
         \o ExchangeLines(LastN(h, ContextExchanges))
         \o <<"Usuario actual: ">> \o current_message \o <<"\n\n">>
         \o <<"Responde al usuario actual teniendo en cuenta el contexto de la conversación:">>

\* the file after save_memory() wrote the history
Saved(h) == [exists |-> TRUE, conversation_history |-> h]

\* add_to_conversation_history(user_message, assistant_response): append,
\* trim, save_memory()
AddToConversationHistory(exchanges) ==
    \E x \in exchanges :
        /\ history_clock < MaxExchanges
        /\ history_clock' = history_clock + 1
        /\ conversation_history' =
              TrimHistory(Append(conversation_history,
                                 [timestamp |-> history_clock', user |-> x[1], assistant |-> x[2]]))
        /\ memory_file' = Saved(conversation_history')
        /\ last' = Call("add_to_conversation_history", x, <<>>, <<>>, FALSE, <<>>, <<>>)
        /\ UNCHANGED <<conversations, memory_summaries, user_profile, seq, now, current_session,
                       loop, connections, memory_available, audio>>

\* load_memory(): the history of the file, trimmed (and saved again when it
\* was trimmed); the empty history when there is no file
LoadMemory ==
    /\ conversation_history' = IF memory_file.exists
                                 THEN TrimHistory(memory_file.conversation_history)
                                 ELSE <<>>
    /\ memory_file' = IF memory_file.exists /\ Len(memory_file.conversation_history) > max_history_length
                       THEN Saved(conversation_history')
                       ELSE memory_file
    /\ last' = Call("load_memory", <<>>, <<>>, <<>>, FALSE, <<>>, <<>>)
    /\ UNCHANGED <<conversations, memory_summaries, user_profile, seq, now, current_session,
                   loop, connections, memory_available, history_clock, audio>>

\* FullVoiceChatBot.clear_memory(): empty the history, save_memory()
ClearHistory ==
    /\ conversation_history' = <<>>
    /\ memory_file' = Saved(conversation_history')
    /\ last' = Call("clear_history", <<>>, <<>>, <<>>, FALSE, conversation_history, <<>>)
    /\ UNCHANGED <<conversations, memory_summaries, user_profile, seq, now, current_session,
                   loop, connections, memory_available, history_clock, audio>>

\* a call of build_context_prompt, as send_to_gemini makes
BuildContextPrompt(messages) ==
    \E m \in messages :
        /\ last' = Call("build_context_prompt", <<m>>, <<>>, <<>>, FALSE, <<>>,
                        build_context_prompt(conversation_history, m))
        /\ UNCHANGED <<conversations, memory_summaries, user_profile, seq, now, current_session,
                       loop, aside>>

-----------------------------------------------------------------------------
(* record_audio, the audio callback and the SIGINT handler (the same in the   *)
(* three bots).  The callback runs on the audio thread while the main thread  *)
(* waits in input(); the handler runs on the main thread.  `stream` is where  *)
(* the main thread is: "closed" outside record_audio, "open" in the with      *)
(* block before Enter, "stopping" once Enter set recording to False and the   *)
(* block is being left, which waits for a callback under way.                 *)

MaxFrames == 3   \* frames appended during one recording

Frames == {"frame a", "frame b"}

StoreVars == <<conversations, memory_summaries, user_profile, seq, now, current_session>>

\* record_audio(): recording = True, audio_data = [], the stream is opened
RecordAudioStarts ==
    /\ process = "running"
    /\ stream = "closed"
    /\ recording' = TRUE
    /\ audio_data' = <<>>
    /\ stream' = "open"
    /\ last' = Call("record_audio (start)", <<>>, <<>>, <<>>, FALSE, <<>>, <<>>)
    /\ UNCHANGED <<StoreVars, loop, connections, memory_available, history, callback, process>>

\* audio_callback reads self.recording and finds it true (when it finds it
\* false it returns with nothing done)
CallbackChecks ==
    /\ process = "running"
    /\ stream = "open"
    /\ callback = "idle"
    /\ recording
    /\ Len(audio_data) < MaxFrames
    /\ callback' = "checked"
    /\ last' = Call("audio_callback (if)", <<>>, <<>>, <<>>, FALSE, <<>>, <<>>)
    /\ UNCHANGED <<StoreVars, loop, connections, memory_available, history,
                   recording, audio_data, stream, process>>

\* audio_callback, after the test: self.audio_data.append(indata.copy())
CallbackAppends(frames) ==
    \E f \in frames :
        /\ process = "running"
        /\ callback = "checked"
        /\ audio_data' = Append(audio_data, f)
        /\ callback' = "idle"
        /\ last' = Call("audio_callback (append)", <<f>>, <<>>, <<>>, FALSE, <<>>, <<>>)
        /\ UNCHANGED <<StoreVars, loop, connections, memory_available, history,
                       recording, stream, process>>

\* Enter: input() returns, recording = False, and the with block is left
EnterPressed ==
    /\ process = "running"
    /\ stream = "open"
    /\ recording' = FALSE
    /\ stream' = "stopping"
    /\ last' = Call("enter", <<>>, <<>>, <<>>, FALSE, <<>>, <<>>)
    /\ UNCHANGED <<StoreVars, loop, connections, memory_available, history,
                   audio_data, callback, process>>

\* the stream is closed once no callback is under way, and record_audio
\* returns the frames, or None when there are none
RecordAudioReturns ==
    /\ process = "running"
    /\ stream = "stopping"
    /\ callback = "idle"
    /\ stream' = "closed"
    /\ last' = Call("record_audio", <<>>, <<>>, <<>>, FALSE, <<>>,
                    IF audio_data = <<>> THEN <<"None">> ELSE audio_data)
    /\ UNCHANGED <<StoreVars, loop, connections, memory_available, history,
                   recording, audio_data, callback, process>>

\* signal_handler: while recording, stop the recording; otherwise
\* sys.exit(0) (the basic bot saves its memory first)
Sigint ==
    /\ process = "running"
    /\ IF recording
       THEN /\ recording' = FALSE
            /\ UNCHANGED <<process, stream, memory_file>>
       ELSE /\ process' = "exited"
            /\ stream' = "closed"
            /\ memory_file' = Saved(conversation_history)
            /\ UNCHANGED recording
    /\ last' = Call("sigint", <<recording>>, <<>>, <<>>, FALSE, <<>>, <<>>)
    /\ UNCHANGED <<StoreVars, loop, connections, memory_available, conversation_history,
                   history_clock, audio_data, callback>>

-----------------------------------------------------------------------------
(* The store's queries: calls made directly on MemoryDatabase *)

Next ==
    \/ DbStoreConversation(MaxInserts, StoreCalls)
    \/ GetRecentConversations(Limits, Sessions)
    \/ SearchConversations(Queries, Limits)
    \/ ClearMemory

Spec == Init /\ [][Next]_vars

-----------------------------------------------------------------------------
(* Inserts and clears alone *)

NextIds ==
    \/ DbStoreConversation(MaxInserts, StoreCalls)
    \/ ClearMemory

SpecIds == Init /\ [][NextIds]_vars

-----------------------------------------------------------------------------
(* The profile and the clear *)

ProfileStoreCalls == {<<Soy_Ana, Hola_Ana, DefaultSession, DefaultImportance>>,
                      <<soy_de_lima, Hola, "test_session", DefaultImportance>>}

NextProfile ==
    \/ DbStoreConversation(MaxInserts, ProfileStoreCalls)
    \/ UpdateUserProfile({"name", "age"}, {Juan, Luis})
    \/ GetUserProfile
    \/ GetRecentConversations({2}, Sessions)
    \/ SearchConversations({<<"a", "n", "a">>}, {2})
    \/ ClearMemory
    \/ ToolClearMemory

SpecProfile == Init /\ [][NextProfile]_vars

-----------------------------------------------------------------------------
(* The facade: turns stored by the chat loop, context built for a message *)

\* turns stored through the facade: (user_message, assistant_response, importance)
FacadeTurns == {<<Buenos_dias, Hola, DefaultImportance>>,
                <<soy_de_lima, Hola, DefaultImportance>>}

\* a row stored by a direct call that leaves session_id to its default
ContextStoreCalls == {<<Buenos_dias, Hola, DefaultSession, 15>>}

\* messages of 4, 10 and 11 characters
Messages == {Hola, soy_de_rio, Buenos_dias}

ContextLimits == {DefaultContextLimit}

NextContext ==
    \/ StoreConversation(MaxInserts, FacadeTurns)
    \/ DbStoreConversation(MaxInserts, ContextStoreCalls)
    \/ UpdateUserProfile({"name"}, {Juan})
    \/ GetContext(Messages, ContextLimits)
    \/ ClearMemory

SpecContext == Init /\ [][NextContext]_vars

-----------------------------------------------------------------------------
(* The recency step of get_context on a session with many turns *)

MaxRecent == 4   \* number of INSERTs into conversations over a run

\* rows stored by direct calls that leave session_id to its default
DefaultStoreCalls == {<<Buenos_dias, Hola, DefaultSession, DefaultImportance>>,
                      <<soy_de_lima, Hola, DefaultSession, DefaultImportance>>}

NextRecency ==
    \/ DbStoreConversation(MaxRecent, DefaultStoreCalls)
    \/ GetContext({Hola}, {3, DefaultContextLimit})
    \/ ClearMemory

SpecRecency == Init /\ [][NextRecency]_vars

-----------------------------------------------------------------------------
(* Profile extraction from the turns stored through the facade *)

ExtractTurns == {<<Mi_nombre_es_Juan, Hola_Juan, DefaultImportance>>,
                 <<Tengo_25_anos, Que_interesante, DefaultImportance>>,
                 <<Soy_Luis_me_llamo_Ana, Hola, DefaultImportance>>,
                 <<Soy_Ana, Hola_Ana, DefaultImportance>>,
                 <<Hola, Hola, DefaultImportance>>}

NextExtract ==
    \/ StoreConversation(MaxInserts, ExtractTurns)
    \/ GetProfile
    \/ ClearMemory

SpecExtract == Init /\ [][NextExtract]_vars

-----------------------------------------------------------------------------
(* The facade and the tools over a store whose statements can fail *)

MaxFaultInserts == 2   \* number of INSERTs into conversations over a run

FaultTurns == {<<soy_de_lima, Hola, DefaultImportance>>,
               <<Hola, Hola, DefaultImportance>>}

NextFaults ==
    \/ StoreConversation(MaxFaultInserts, FaultTurns)
    \/ StoreConversationFails(FaultTurns)
    \/ GetContext({Hola}, ContextLimits)
    \/ GetContextFails({Hola}, ContextLimits)
    \/ SearchMemoryFails({<<"a", "n", "a">>}, {2})
    \/ UpdateUserProfile({"name"}, {Juan})
    \/ UpdateProfileFails({"name"}, {Juan})
    \/ GetProfile
    \/ GetProfileFails
    \/ ClearMemory
    \/ ClearMemoryFails

SpecFaults == Init /\ [][NextFaults]_vars

-----------------------------------------------------------------------------
(* The chat loop of FullVoiceChatBotAdvanced *)

MaxChatTurns == 2   \* number of exchanges stored over a run

ChatMessages == {Hola, soy_de_lima}

\* texts of the LLM: one with white space after it, one of white space only
\* (truthy, and empty once stripped)
LlmTexts == {Hola, Hola \o <<" ">>, <<" ">>}

NextChat ==
    \/ ChatTurnAnswered(MaxChatTurns, ChatMessages, LlmTexts)
    \/ ChatTurnStoreFails(ChatMessages, LlmTexts)
    \/ ChatTurnLlmFails(ChatMessages)
    \/ ChatTurnContextFails(ChatMessages)
    \/ ChatExit

SpecChat == Init /\ [][NextChat]_vars

-----------------------------------------------------------------------------
(* Claims on the store *)

\* a step that deletes: the facade's clear, or the tool's with confirm=true
IsClear(call) ==
    /\ call.op \in {"clear_memory", "tool_clear_memory"}
    /\ call.result = "Memory cleared successfully"

\* C1: after a clear (clear_memory, or the clear_memory tool with
\* confirm=true) get_recent_conversations returns the empty list for every
\* session and limit and search_conversations returns the empty list for every
\* query and limit, while get_user_profile returns the mapping it returned
\* right before the clear.
C1_ClearAsymmetry ==
    [][IsClear(last') =>
        /\ \A limit \in Limits, s \in Sessions :
              {Dicts(conversations', f) : f \in RecentFetches(conversations', limit, s)} = {<<>>}
        /\ \A q \in Queries, limit \in Limits :
              {Dicts(conversations', f) : f \in SearchFetches(conversations', q, limit)} = {<<>>}
        /\ db_get_user_profile(user_profile') = db_get_user_profile(user_profile)]_vars

\* a clear has just deleted stored turns while the profile holds facts
C1_Witness ==
    /\ IsClear(last)
    /\ last.removed # <<>>
    /\ user_profile # <<>>

\* C2: after update_user_profile(k, v) the table holds exactly one row for k,
\* with value v, also when k was there with another value; no key has two
\* rows; the rows of the other keys are as before.
C2_ProfileUpsert ==
    [][last'.op = "update_user_profile" =>
        LET k == last'.args[1]
            v == last'.args[2]
        IN  /\ \A i, j \in 1..Len(user_profile') :
                  user_profile'[i].key = user_profile'[j].key => i = j
            /\ \E i \in 1..Len(user_profile') : user_profile'[i] = [key |-> k, value |-> v]
            /\ \A r \in Range(user_profile) \cup Range(user_profile') :
                  r.key # k => (r \in Range(user_profile) <=> r \in Range(user_profile'))]_vars

\* the key "name" held Juan, was updated to Luis, and another key is stored
C2_Witness ==
    /\ last.op = "update_user_profile"
    /\ last.args = <<"name", Luis>>
    /\ last.removed = <<[key |-> "name", value |-> Juan]>>
    /\ db_get_user_profile(user_profile) = << <<"age", Juan>>, <<"name", Luis>> >>

\* the rows of convs with the session
OfSession(convs, s) == {r \in Range(convs) : r.session_id = s}

\* the part of the recency claim that does not depend on strictness: at most
\* L rows, all of session s, distinct rows of the table, as many as the limit
\* and the session allow, none older than a row of the session left out, and
\* the list returned is made of them
RecentIsNewest(call, convs) ==
    LET limit == call.args[1]
        s == call.args[2]
        r == call.recent
    IN  /\ Len(r) <= limit
        /\ Len(r) = Min(limit, Cardinality(OfSession(convs, s)))
        /\ \A i \in 1..Len(r) : r[i] \in OfSession(convs, s)
        /\ \A i, j \in 1..Len(r) : r[i].id = r[j].id => i = j
        /\ \A i \in 1..Len(r) : \A o \in OfSession(convs, s) \ Range(r) :
              o.timestamp <= r[i].timestamp
        /\ call.result = [i \in 1..Len(r) |-> RowDict(r[i])]

\* C3 as stated: the rows come strictly descending by timestamp
C3_StrictlyDescending ==
    last.op = "get_recent_conversations" =>
        /\ RecentIsNewest(last, conversations)
        /\ \A i, j \in 1..Len(last.recent) :
              i < j => last.recent[i].timestamp > last.recent[j].timestamp

\* C3, amended: get_recent_conversations(limit=L, session_id=s) returns at
\* most L rows, all of session s, the L newest of that session (all of them
\* when it has at most L), in descending order of timestamp; two rows with
\* the same timestamp come in either order.
C3_RecentDescending ==
    last.op = "get_recent_conversations" =>
        /\ RecentIsNewest(last, conversations)
        /\ \A i, j \in 1..Len(last.recent) :
              i < j => last.recent[i].timestamp >= last.recent[j].timestamp

\* the session has three rows, the limit is 2: the two newest are returned,
\* the newer first, the oldest is left out
C3_Witness ==
    /\ last.op = "get_recent_conversations"
    /\ last.args[1] = 2
    /\ Cardinality(OfSession(conversations, last.args[2])) = 3
    /\ Len(last.recent) = 2
    /\ last.recent[1].timestamp > last.recent[2].timestamp
    /\ \E o \in OfSession(conversations, last.args[2]) : o.timestamp < last.recent[2].timestamp

\* q occurs in t as a substring, letters compared without case
Contains(q, t) ==
    \E i \in 1..(Len(t) - Len(q) + 1) :
        \A j \in 1..Len(q) : LikeFold(t[i + j - 1]) = LikeFold(q[j])

\* C4: a stored turn is eligible for search_conversations(q, limit) if and
\* only if q occurs as a substring of its user_message or of its
\* assistant_response, whatever its session; no returned row lacks q in both
\* fields.
C4_SubstringMatch ==
    last.op = "search_conversations" =>
        LET q == last.args[1]
            limit == last.args[2]
            eligible == {r \in Range(conversations) :
                            Contains(q, r.user_message) \/ Contains(q, r.assistant_response)}
        IN  /\ Range(last.relevant) \subseteq eligible
            /\ Len(last.relevant) = Min(limit, Cardinality(eligible))

\* C5: search_conversations(q, limit) returns at most limit rows, by
\* importance_score descending and, among equal importance, by timestamp
\* descending; they are the first `limit` of the matching rows in that order.
C5_SearchOrder ==
    last.op = "search_conversations" =>
        LET q == last.args[1]
            limit == last.args[2]
            r == last.relevant
            matching == {x \in Range(conversations) : SearchWhere(x, q)}
        IN  /\ Len(r) <= limit
            /\ Len(r) = Min(limit, Cardinality(matching))
            /\ Range(r) \subseteq matching
            /\ \A i, j \in 1..Len(r) : r[i].id = r[j].id => i = j
            /\ \A i, j \in 1..Len(r) : i < j =>
                  \/ r[i].importance_score > r[j].importance_score
                  \/ /\ r[i].importance_score = r[j].importance_score
                     /\ r[i].timestamp >= r[j].timestamp
            /\ \A i \in 1..Len(r) : \A o \in matching \ Range(r) :
                  \/ r[i].importance_score > o.importance_score
                  \/ /\ r[i].importance_score = o.importance_score
                     /\ r[i].timestamp >= o.timestamp
            /\ last.result = [i \in 1..Len(r) |-> RowDict(r[i])]

\* three rows match, the limit is 2: the row of higher importance comes first
\* although it is older, and of the two rows of equal importance the newer
\* is returned and the older left out
C5_Witness ==
    /\ last.op = "search_conversations"
    /\ last.args[2] = 2
    /\ Len(last.relevant) = 2
    /\ last.relevant[1].importance_score > last.relevant[2].importance_score
    /\ last.relevant[1].timestamp < last.relevant[2].timestamp
    /\ \E o \in Range(conversations) :
          /\ SearchWhere(o, last.args[1])
          /\ o.importance_score = last.relevant[2].importance_score
          /\ o.timestamp < last.relevant[2].timestamp

\* a step that inserts a conversation row
IsInsert(call) == call.op \in {"db_store_conversation", "store_conversation"}

\* C13: over any sequence of inserts and clears, the id an insert returns is
\* greater than every id returned before (seq, which never decreases, is the
\* greatest of them) and than every id in the table, also right after a
\* clear; the ids in the table are distinct and increase in insertion order.
C13_IdsNeverReused ==
    [][/\ seq' >= seq
       /\ IsInsert(last') =>
             LET id == lastrowid(conversations')
             IN  /\ id > seq
                 /\ seq' = id
                 /\ \A i \in 1..Len(conversations) : conversations[i].id < id
                 /\ last'.op = "db_store_conversation" => last'.result = id
       /\ \A i, j \in 1..Len(conversations') :
             i < j => conversations'[i].id < conversations'[j].id]_vars

\* an insert right after a clear that deleted two rows: the table's only row
\* has id 3
C13_Witness ==
    /\ last.op = "db_store_conversation"
    /\ Len(conversations) = 1
    /\ last.result = 3
    /\ conversations[1].id = 3

\* C17: the clear_memory tool called without confirm or with confirm=false
\* deletes nothing (conversations, summaries and profile are as before) and
\* returns the cancelled status; with confirm=true it deletes conversations
\* and summaries.  The facade's clear_memory() takes no flag and deletes.
C17_ToolClearNeedsConfirm ==
    [][/\ last'.op = "tool_clear_memory" =>
             IF last'.args = << <<"confirm", TRUE>> >>
             THEN /\ conversations' = <<>>
                  /\ memory_summaries' = <<>>
                  /\ last'.result = "Memory cleared successfully"
             ELSE /\ UNCHANGED <<conversations, memory_summaries, user_profile>>
                  /\ last'.result = "Memory clear cancelled - confirmation required"
       /\ last'.op = "clear_memory" =>
             /\ last'.args = <<>>
             /\ conversations' = <<>>
             /\ memory_summaries' = <<>>
             /\ last'.result = "Memory cleared successfully"]_vars

\* the tool was called without the flag while turns and facts are stored,
\* and they are all still there
C17_Witness ==
    /\ last.op = "tool_clear_memory"
    /\ last.args = <<>>
    /\ last.result = "Memory clear cancelled - confirmation required"
    /\ Len(conversations) >= 2
    /\ user_profile # <<>>

-----------------------------------------------------------------------------
(* Claims on get_context *)

\* the positions of text at which sub occurs
Positions(text, sub) ==
    {i \in 1..(Len(text) - Len(sub) + 1) : SubSeq(text, i, i + Len(sub) - 1) = sub}

\* the user line and the assistant line of each row, each after a line break
RECURSIVE PairLines(_)
PairLines(rows) ==
    IF rows = <<>> THEN <<>>
    ELSE <<"\n", UserPrefix>> \o Head(rows).user_message
         \o <<"\n", AssistantPrefix>> \o Head(rows).assistant_response
         \o PairLines(Tail(rows))

\* a heading and the line pairs of the rows under it
Section(heading, rows) == <<heading>> \o PairLines(rows)

\* the end of a context with material: the current message and the instruction
Closing(current_message) == <<CurrentPrefix>> \o current_message \o <<InstructionSuffix>>

\* C6: with no stored conversation and an empty profile get_context(m) returns
\* exactly m, without heading or instruction, for a short m and for a long m
\* that the search is run for.
C6_ContextDegenerates ==
    (last.op = "get_context" /\ conversations = <<>> /\ user_profile = <<>>) =>
        last.result = last.args[1]

\* get_context on the empty store with a message of 11 characters
C6_Witness ==
    /\ last.op = "get_context"
    /\ conversations = <<>>
    /\ user_profile = <<>>
    /\ seq > 0
    /\ last.searched
    /\ last.args[1] = Buenos_dias
    /\ last.result = Buenos_dias

\* C7: with the profile {name: Juan}, one turn stored through the facade in
\* the active session and a message of more than 10 characters that matches
\* the turn, the context holds the profile line, the turn under the recent
\* heading, the turn under the relevant heading, in this order, and ends with
\* the current message and the instruction.
C7_ContextComposition ==
    (/\ last.op = "get_context"
     /\ db_get_user_profile(user_profile) = << <<"name", Juan>> >>
     /\ Len(conversations) = 1
     /\ conversations[1].session_id = current_session
     /\ Len(last.args[1]) > 10
     /\ SearchWhere(conversations[1], last.args[1])) =>
        LET res == last.result
            closing == Closing(last.args[1])
        IN  \E i1 \in Positions(res, <<ProfileHeading, "name", ": ">> \o Juan) :
            \E i2 \in Positions(res, Section(RecentHeading, conversations)) :
            \E i3 \in Positions(res, Section(RelevantHeading, conversations)) :
            \E i4 \in Positions(res, closing) :
                /\ i1 < i2 /\ i2 < i3 /\ i3 < i4
                /\ i4 + Len(closing) - 1 = Len(res)

\* the rows stored through this facade instance
ActiveTurns == {r \in Range(conversations) : r.session_id = current_session}

\* C8: a turn stored through the facade, with fewer than context_limit newer
\* turns of the instance after it and no clear since, is rendered under the
\* recent-conversation heading by get_context.
C8_RecencyReadsActiveSession ==
    last.op = "get_context" =>
        \A r \in ActiveTurns :
            Cardinality({o \in ActiveTurns : o.id > r.id}) < last.args[2] =>
                \E h \in Positions(last.result, <<RecentHeading>>) :
                \E i \in Positions(last.result, PairLines(<<r>>)) :
                    /\ h < i
                    /\ \A x \in Positions(last.result, <<RelevantHeading>>) : i < x

\* C9: of the k recent turns get_context fetched, newest first, the ones
\* under the recent-conversation heading are the min(k, 3) newest, oldest of
\* them first, and nothing else.
C9_RendersNewestThree ==
    (last.op = "get_context" /\ last.recent # <<>>) =>
        LET res == last.result
            sect == Section(RecentHeading, Reverse(Take(last.recent, 3)))
        IN  \E i \in Positions(res, sect) :
                \/ SubSeq(res, i + Len(sect), i + Len(sect)) = <<CurrentPrefix>>
                \/ SubSeq(res, i + Len(sect), i + Len(sect) + 1) = <<"\n", RelevantHeading>>

\* r is a list of at most `limit` distinct rows of `matching`, by importance
\* descending and then timestamp descending, and no row left out sorts before
\* a row of r
IsRelevancePrefix(r, matching, limit) ==
    /\ Len(r) = Min(limit, Cardinality(matching))
    /\ Range(r) \subseteq matching
    /\ \A i, j \in 1..Len(r) : r[i].id = r[j].id => i = j
    /\ \A i, j \in 1..Len(r) : i < j =>
          \/ r[i].importance_score > r[j].importance_score
          \/ /\ r[i].importance_score = r[j].importance_score
             /\ r[i].timestamp >= r[j].timestamp
    /\ \A i \in 1..Len(r) : \A o \in matching \ Range(r) :
          \/ r[i].importance_score > o.importance_score
          \/ /\ r[i].importance_score = o.importance_score
             /\ r[i].timestamp >= o.timestamp

\* C10: get_context runs the search exactly when the message has more than 10
\* characters; the search is over the rows of all sessions with limit 2; the
\* relevant section holds the rows found, at most 2, in relevance order; a
\* message of 10 characters or fewer gets no relevant section.
C10_SearchOnlyLongMessages ==
    last.op = "get_context" =>
        LET m == last.args[1]
            res == last.result
            matching == {x \in Range(conversations) : SearchWhere(x, m)}
            sect == Section(RelevantHeading, last.relevant)
        IN  /\ last.searched <=> Len(m) > 10
            /\ last.searched => IsRelevancePrefix(last.relevant, matching, 2)
            /\ (last.searched /\ last.relevant # <<>>) =>
                  \E i \in Positions(res, sect) :
                      SubSeq(res, i + Len(sect), i + Len(sect)) = <<CurrentPrefix>>
            /\ (~last.searched \/ last.relevant = <<>>) =>
                  Positions(res, <<RelevantHeading>>) = {}

\* a message of 11 characters matches three turns, of the active session and
\* of another: two are rendered, the one of higher importance first
C10_Witness ==
    /\ last.op = "get_context"
    /\ Len(last.args[1]) = 11
    /\ Cardinality({x \in Range(conversations) : SearchWhere(x, last.args[1])}) = 3
    /\ Len(last.relevant) = 2
    /\ last.relevant[1].importance_score > last.relevant[2].importance_score
    /\ \E x \in Range(conversations) : SearchWhere(x, last.args[1]) /\ x.session_id = current_session
    /\ \E x \in Range(conversations) : SearchWhere(x, last.args[1]) /\ x.session_id = DefaultSession
    /\ Positions(last.result, Section(RelevantHeading, last.relevant)) # {}


\* the text ends with the end
EndsWith(text, end) ==
    /\ Len(text) >= Len(end)
    /\ SubSeq(text, Len(text) - Len(end) + 1, Len(text)) = end

\* C11: get_context(m) returns exactly m if and only if the profile is empty,
\* the recency fetch is empty and the search gave no hit (or was not run);
\* in every other case the result ends with the current-message line followed
\* by the instruction line.
C11_ScaffoldOnlyWithMaterial ==
    last.op = "get_context" =>
        LET m == last.args[1]
            material == \/ db_get_user_profile(user_profile) # <<>>
                        \/ last.recent # <<>>
                        \/ last.relevant # <<>>
        IN  /\ last.result = m <=> ~material
            /\ material => EndsWith(last.result, Closing(m))

\* the only material is a search hit: the profile is empty and the recency
\* fetch found nothing although a turn is stored, and the result is scaffolded
C11_Witness ==
    /\ last.op = "get_context"
    /\ user_profile = <<>>
    /\ last.recent = <<>>
    /\ last.relevant # <<>>
    /\ last.result # last.args[1]
    /\ EndsWith(last.result, Closing(last.args[1]))


-----------------------------------------------------------------------------
(* Claims on profile extraction *)

\* the text of "key": "value" in the output of get_profile
JsonPair(key, value) == <<"\"", key, "\"", ": ", "\"">> \o value \o <<"\"">>

\* C12: from the empty store, after store("Mi nombre es Juan", "Hola Juan")
\* and then store("Tengo 25 años", "Qué interesante"), get_profile() holds
\* name = "Juan" and age = "25".
C12_EndToEndExtraction ==
    (/\ last.op = "get_profile"
     /\ seq = 2
     /\ Len(conversations) = 2
     /\ conversations[1].user_message = Mi_nombre_es_Juan
     /\ conversations[1].assistant_response = Hola_Juan
     /\ conversations[2].user_message = Tengo_25_anos
     /\ conversations[2].assistant_response = Que_interesante) =>
        /\ Positions(last.result, JsonPair("name", Juan)) # {}
        /\ Positions(last.result, JsonPair("age", <<"2", "5">>)) # {}

\* the rules of the type that match the text, by their place in the list
Hits(type, msg_lower) ==
    {i \in 1..Len(type.rules) : re_search(type.rules[i], msg_lower) # NoMatch}

\* the value the dict of the profile has for the key, NoMatch if none
ValueOf(profile, key) ==
    IF \E i \in 1..Len(profile) : profile[i][1] = key
    THEN profile[CHOOSE i \in 1..Len(profile) : profile[i][1] = key][2]
    ELSE NoMatch

\* C15: in one store call each fact type gets at most one upsert; its value
\* is the capture of the first rule, in the order of the type's rule list,
\* that matches the lower-cased utterance, and it is the value the profile
\* then holds; a type none of whose rules matches gets no upsert.
C15_FirstRuleWins ==
    last.op = "store_conversation" =>
        LET m == lower(last.args[1])
            ups == last.upserts
        IN  \A t \in 1..Len(patterns) :
                LET type == patterns[t]
                    calls == {j \in 1..Len(ups) : ups[j][1] = type.type}
                    hits == Hits(type, m)
                IN  IF hits = {} THEN calls = {}
                    ELSE LET first == CHOOSE i \in hits : \A j \in hits : i <= j
                             value == re_search(type.rules[first], m)
                         IN  /\ Cardinality(calls) = 1
                             /\ \A j \in calls : ups[j][2] = value
                             /\ ValueOf(db_get_user_profile(user_profile), type.type) = value

\* "Soy Luis, me llamo Ana": two rules of name match, the one that comes
\* first in the list matches later in the text, and it gives the name
C15_Witness ==
    /\ last.op = "store_conversation"
    /\ last.args[1] = Soy_Luis_me_llamo_Ana
    /\ Hits(patterns[1], lower(last.args[1])) = {2, 3}
    /\ ValueOf(db_get_user_profile(user_profile), "name") = <<"a", "n", "a">>
    /\ ~\E j \in 1..Len(last.upserts) : last.upserts[j][1] = "location"

\* C16: the types are tried independently: a type gets its upsert whenever
\* one of its rules matches, whatever matched for the types before it; an
\* utterance with "soy X" that matches no earlier rule of name sets name and
\* profession both to X (X as it stands in the lower-cased utterance).
C16_TypesIndependent ==
    last.op = "store_conversation" =>
        LET m == lower(last.args[1])
            ups == last.upserts
            soy == re_search(Pat(<<"s", "o", "y", " ">>, "w", <<>>), m)
            profile == db_get_user_profile(user_profile)
        IN  /\ \A t \in 1..Len(patterns) :
                  (Hits(patterns[t], m) # {}) <=>
                      (\E j \in 1..Len(ups) : ups[j][1] = patterns[t].type)
            /\ (soy # NoMatch /\ Hits(patterns[1], m) = {3}) =>
                  /\ ValueOf(profile, "name") = soy
                  /\ ValueOf(profile, "profession") = soy

\* "Soy Ana" has set the name and the profession to the same word
C16_Witness ==
    /\ last.op = "store_conversation"
    /\ last.args[1] = Soy_Ana
    /\ Len(last.upserts) = 2
    /\ ValueOf(db_get_user_profile(user_profile), "name") = <<"a", "n", "a">>
    /\ ValueOf(db_get_user_profile(user_profile), "profession") = <<"a", "n", "a">>


-----------------------------------------------------------------------------
(* Claims on failures *)

\* a call in which a statement of the store failed
HasFailed(call) == "fault" \in DOMAIN call

\* C14: a store_conversation in which the extraction fails (an upsert of the
\* extractor raises) still inserts the conversation turn and ends as a
\* store does, the error being ignored.
C14_ExtractionFailureIgnored ==
    [][(/\ last'.op = "store_conversation"
        /\ HasFailed(last')
        /\ last'.fault = "extract") =>
            /\ Len(conversations') = Len(conversations) + 1
            /\ lastrowid(conversations') = seq'
            /\ conversations'[Len(conversations')].user_message = last'.args[1]
            /\ last'.result # Raised(StorageError)
            /\ last'.result # Returned(<<"Error: ", StorageError>>)]_vars

\* C18: a call in which a statement of the store failed never ends with the
\* operation's success result: the facade's call ends in the exception of
\* the store, the tool's call returns the text "Error: " followed by the
\* exception's message.
C18_StorageErrorReported ==
    (last.op # "init" /\ HasFailed(last)) =>
        /\ last.surface = "facade" =>
              /\ last.result.outcome = "raise"
              /\ last.result.value = StorageError
        /\ last.surface = "tool" =>
              /\ last.result.outcome = "return"
              /\ last.result.value = <<"Error: ", StorageError>>

\* the INSERT of a store_conversation tool call failed after the extractor
\* had committed three facts: the caller got the error text, no row is stored
C18_Witness ==
    /\ last.op = "store_conversation"
    /\ HasFailed(last)
    /\ last.surface = "tool"
    /\ last.fault = "insert"
    /\ Len(last.upserts) = 3
    /\ last.result = Returned(<<"Error: ", StorageError>>)
    /\ conversations = <<>>


\* C19: when a statement fails while get_context assembles the context, the
\* round still calls the LLM, and the prompt is the raw message.
C19_ContextFailureFallsBack ==
    (last.op = "turn" /\ last.fault = "context") =>
        /\ last.llm # "not called"
        /\ last.prompt = last.args[1]

\* C20: a round in which the LLM raises or gives an empty response ends with
\* a diagnostic text as the response shown to the user, and the loop is
\* running for the next round.
C20_LlmFailureKeepsLoop ==
    [][(last'.op = "turn" /\ last'.llm \in {"raise", "empty"}) =>
          /\ loop = "running"
          /\ last'.result = (IF last'.llm = "empty" THEN <<NoResponse>>
                                                  ELSE <<ErrorPrefix, LlmError>>)
          /\ loop' = "running"]_vars

\* the LLM raised in a round whose prompt carried context about a stored
\* exchange; the user got the error text and the loop runs
C20_Witness ==
    /\ last.op = "turn"
    /\ last.llm = "raise"
    /\ last.result = <<ErrorPrefix, LlmError>>
    /\ conversations # <<>>
    /\ last.prompt # last.args[1]
    /\ loop = "running"

-----------------------------------------------------------------------------
(* Every operation of the store and of the facade, on few inputs *)

FrameStoreCalls == {<<Soy_Ana, Hola_Ana, DefaultSession, DefaultImportance>>}

FrameTurns == {<<soy_de_lima, Hola, DefaultImportance>>}

NextFrame ==
    \/ DbStoreConversation(MaxInserts, FrameStoreCalls)
    \/ StoreConversation(MaxInserts, FrameTurns)
    \/ UpdateUserProfile({"name"}, {Juan})
    \/ UpdateProfile({"name"}, {Luis})
    \/ GetUserProfile
    \/ GetProfile
    \/ GetRecentConversations({2}, {DefaultSession})
    \/ SearchConversations({<<"a", "n", "a">>}, {2})
    \/ SearchMemory({<<"a", "n", "a">>}, {2})
    \/ GetContext({soy_de_lima}, {DefaultContextLimit})
    \/ ClearMemory

SpecFrame == Init /\ [][NextFrame]_vars

\* C21: no operation other than clear changes or deletes a stored
\* conversation row: after insert_conversation, upsert_profile, get_profile,
\* recent_conversations, search_conversations, get_context and store every
\* row that was in the table is still there, unchanged and at its place; an
\* insert (direct or through store) adds exactly one row after them, and
\* every other operation adds none.
C21_RowsOnlyRemovedByClear ==
    [][~IsClear(last') =>
          /\ Len(conversations') >= Len(conversations)
          /\ SubSeq(conversations', 1, Len(conversations)) = conversations
          /\ Len(conversations') = Len(conversations) + (IF IsInsert(last') THEN 1 ELSE 0)]_vars

\* two rows are stored and every kind of read and upsert has left them as
\* they were: the last call is a get_context over both
C21_Witness ==
    /\ Len(conversations) = 2
    /\ last.op = "get_context"
    /\ user_profile # <<>>
    /\ \E i \in 1..2 : conversations[i].session_id = current_session

\* C27: get_context, search_memory and get_profile only read: each leaves
\* the conversations, the summaries and the profile (and the id counter) as
\* they were; get_context does not run the extractor on its message.
C27_ReadsLeaveStore ==
    [][last'.op \in {"get_context", "search_memory", "get_profile"} =>
          UNCHANGED <<conversations, memory_summaries, user_profile, seq>>]_vars

\* get_context was called with "soy de lima", which the location rule
\* matches, over a stored row, and the profile has no location
C27_Witness ==
    /\ last.op = "get_context"
    /\ last.args[1] = soy_de_lima
    /\ ExtractorCalls(soy_de_lima) # <<>>
    /\ conversations # <<>>
    /\ \A i \in 1..Len(user_profile) : user_profile[i].key # "location"

\* the capture of the first rule of the type, in the order of its list, that
\* matches the text; NoMatch if none does
FirstCapture(type, msg_lower) ==
    LET hits == Hits(type, msg_lower)
    IN  IF hits = {} THEN NoMatch
        ELSE re_search(type.rules[CHOOSE i \in hits : \A j \in hits : i <= j], msg_lower)

\* for each utterance and each fact type, what the rules capture, computed once
CaptureTable ==
    [m \in Utterances |-> [t \in 1..Len(patterns) |-> FirstCapture(patterns[t], lower(m))]]

\* C24: a store whose utterance matches a rule of a fact type leaves that
\* type with the value captured from this utterance, whatever an earlier
\* utterance had set; a store whose utterance matches no rule of a type
\* leaves the value of that type as it was.
C24_LaterFactOverwrites ==
    [][last'.op = "store_conversation" =>
          LET before == db_get_user_profile(user_profile)
              after == db_get_user_profile(user_profile')
          IN  \A t \in 1..Len(patterns) :
                  LET captured == CaptureTable[last'.args[1]][t]
                  IN  IF captured = NoMatch
                      THEN ValueOf(after, patterns[t].type) = ValueOf(before, patterns[t].type)
                      ELSE ValueOf(after, patterns[t].type) = captured]_vars

\* "Mi nombre es Juan" and "Tengo 25 años" were stored, then "Soy Ana": the
\* name is now ana and the age is still 25
C24_Witness ==
    /\ last.op = "store_conversation"
    /\ last.args[1] = Soy_Ana
    /\ Len(conversations) = 3
    /\ conversations[1].user_message = Mi_nombre_es_Juan
    /\ conversations[2].user_message = Tengo_25_anos
    /\ ValueOf(db_get_user_profile(user_profile), "name") = <<"a", "n", "a">>
    /\ ValueOf(db_get_user_profile(user_profile), "age") = <<"2", "5">>

-----------------------------------------------------------------------------
(* Claims on the chat loop *)

-----------------------------------------------------------------------------
(* Commands said to the advanced bot and to the MCP bot over one store *)

Borrar_memoria == <<"B", "o", "r", "r", "a", "r", " ", "m", "e", "m", "o", "r", "i", "a">>
Mi_perfil == <<"m", "i", " ", "p", "e", "r", "f", "i", "l">>
Chao == <<"C", "h", "a", "o">>

\* what is said: a word of each command list, two of them capitalised, and
\* an utterance that is no command
Transcriptions == {Borrar_memoria, Mi_perfil, Chao, soy_de_lima}

NextCommands ==
    \/ ChatTurnAnswered(MaxChatTurns, Transcriptions, {Hola})
    \/ ChatTurnLlmFails(Transcriptions)
    \/ ChatClearCommand(Transcriptions)
    \/ ChatClearCommandFails(Transcriptions)
    \/ ChatProfileCommand(Transcriptions)
    \/ ChatExitCommand(Transcriptions)
    \/ InitMcpConnection
    \/ McpClearCommand(Transcriptions)

SpecCommands == Init /\ [][NextCommands]_vars

\* what the two statements of C30 share: a round takes a command branch
\* exactly for the words of the lists (compared in lower case); such a round
\* does not call the LLM, adds no conversation row and leaves the profile
\* and the id counter alone; the exit word is answered with the goodbye and
\* the profile word with the sentence made of the stored facts
CommandsBypass(call, convs_before, convs_after, profile_before, profile_after) ==
    /\ call.op = "turn" =>
          lower(call.args[1]) \notin ClearCommands \cup ProfileCommands \cup ExitCommands
    /\ call.op = "command" =>
          /\ lower(call.args[1]) \in
                (CASE call.kind = "clear" -> ClearCommands
                   [] call.kind = "profile" -> ProfileCommands
                   [] call.kind = "exit" -> ExitCommands)
          /\ call.llm = "not called"
          /\ Range(convs_after) \subseteq Range(convs_before)
          /\ profile_after = profile_before
          /\ call.kind = "exit" => call.result = <<Goodbye>>
          /\ call.kind = "profile" =>
                IF profile_before = <<>> THEN call.result = <<NoProfileResponse>>
                ELSE /\ call.result[1] = "Lo que sé sobre ti: "
                     /\ \A i \in 1..Len(profile_before) :
                           Positions(call.result, profile_before[i].value) # {}

\* C30 as stated: the announcement follows every clear command, whether or
\* not the clear removed the rows
C30_AnnouncedRegardless ==
    [][/\ CommandsBypass(last', conversations, conversations', user_profile, user_profile')
       /\ (last'.op = "command" /\ last'.kind = "clear") =>
             last'.result = <<ClearAnnouncement>>]_vars

\* C30, amended: command rounds (clear, show-profile, exit words) do not call
\* the LLM, store no turn and run no extraction; the exit and profile words
\* get the response the loop builds itself.  In the MCP bot the clear
\* announcement follows whether or not the clear removed the rows (memory not
\* available, or the call failed).  In the advanced bot it follows only when
\* clear_memory() returned, the rows then being deleted; when clear_memory()
\* raises, the round ends with the loop's "Error inesperado" text, no
\* announcement, and the rows as they were.
C30_CommandsBypass ==
    [][/\ CommandsBypass(last', conversations, conversations', user_profile, user_profile')
       /\ seq' >= seq
       /\ (last'.op = "command" /\ last'.kind = "clear") =>
             IF last'.bot = "mcp"
             THEN /\ last'.result = <<ClearAnnouncement>>
                  /\ conversations' = (IF last'.fault = "none" THEN <<>> ELSE conversations)
             ELSE IF last'.fault = "none"
             THEN /\ last'.result = <<ClearAnnouncement>>
                  /\ conversations' = <<>>
             ELSE /\ last'.result = <<UnexpectedPrefix, StorageError>>
                  /\ conversations' = conversations
                  /\ loop' = "running"]_vars

\* the MCP bot announced the clear although its call raised and the stored
\* row is still there
C30_Witness ==
    /\ last.op = "command"
    /\ last.kind = "clear"
    /\ last.bot = "mcp"
    /\ last.fault = "raise"
    /\ last.args[1] = Borrar_memoria
    /\ last.result = <<ClearAnnouncement>>
    /\ conversations # <<>>

-----------------------------------------------------------------------------
(* The facade's store statement by statement, with clears and reads between calls *)

StepTurns == {<<Soy_Ana, Hola_Ana, DefaultImportance>>,
              <<soy_de_lima, Hola, DefaultImportance>>,
              <<Hola, Hola, DefaultImportance>>}

\* between two store calls: a read of the profile, a clear
ProfileReadBetweenCalls == Idle /\ GetProfile
ClearBetweenCalls == Idle /\ ClearMemory

NextSteps ==
    \/ StoreCallBegins(MaxInserts, StepTurns)
    \/ StoreCallUpserts
    \/ StoreCallInserts
    \/ ProfileReadBetweenCalls
    \/ ClearBetweenCalls

SpecSteps == Init /\ [][NextSteps]_vars

\* C23: within one store call the extractor's upserts come before the insert
\* of the conversation row: the step that adds the row is taken by a call
\* all of whose upserts are made, it leaves the profile alone, and the
\* profile then holds every fact extracted from the row's user message; so
\* in the state where the call has returned, its row present, the facts are
\* applied.
C23_UpsertsBeforeInsert ==
    [][/\ Len(conversations') > Len(conversations) =>
             /\ ~Idle
             /\ last.done = Len(last.upserts)
             /\ last.upserts = ExtractorCalls(conversations'[Len(conversations')].user_message)
             /\ user_profile' = user_profile
             /\ \A j \in 1..Len(last.upserts) :
                   ValueOf(db_get_user_profile(user_profile), last.upserts[j][1]) = last.upserts[j][2]
       /\ last'.op = "store_conversation" =>
             /\ conversations'[Len(conversations')].user_message = last'.args[1]
             /\ \A j \in 1..Len(last'.upserts) :
                   ValueOf(db_get_user_profile(user_profile'), last'.upserts[j][1])
                       = last'.upserts[j][2]]_vars

\* a call for "Soy Ana" is under way: its two upserts (name, profession) are
\* made and its row is not yet in the table
C23_Witness ==
    /\ ~Idle
    /\ last.args[1] = Soy_Ana
    /\ last.done = 2
    /\ Len(last.upserts) = 2
    /\ conversations = <<>>
    /\ ValueOf(db_get_user_profile(user_profile), "name") = <<"a", "n", "a">>

-----------------------------------------------------------------------------
(* The operations of MemoryDatabase with the connections they open *)

NextConnections ==
    \/ ConnStoreConversation(MaxFaultInserts, ProfileStoreCalls)
    \/ ConnGetRecentConversations({2}, {DefaultSession})
    \/ ConnSearchConversations({<<"a", "n", "a">>}, {2})
    \/ ConnUpdateUserProfile({"name"}, {Juan})
    \/ ConnGetUserProfile
    \/ ConnClearMemory
    \/ ConnOperationFails({"db_store_conversation", "get_user_profile"})
    \/ FinalizeConnections

SpecConnections == Init /\ [][NextConnections]_vars

\* C26: every store operation closes the connection it opened when it
\* completes or fails: between two operations no connection opened by an
\* earlier one is open.
C26_NoConnectionHeld == connections = 0

-----------------------------------------------------------------------------
(* The basic bot's history *)

Exchanges == {<<Hola, Hola_Ana>>, <<Soy_Ana, Hola>>}

NextHistory ==
    \/ AddToConversationHistory(Exchanges)
    \/ LoadMemory
    \/ ClearHistory
    \/ BuildContextPrompt({Hola})

SpecHistory == Init /\ [][NextHistory]_vars

-----------------------------------------------------------------------------
(* Recording: the main thread, the audio thread and SIGINT interleaved *)

NextRecording ==
    \/ RecordAudioStarts
    \/ CallbackChecks
    \/ CallbackAppends(Frames)
    \/ EnterPressed
    \/ RecordAudioReturns
    \/ Sigint

SpecRecording == Init /\ [][NextRecording]_vars

\* what SIGINT does in either state of recording, and the start of a recording
SigintAndStart ==
    /\ last'.op = "sigint" =>
          IF recording THEN ~recording' /\ process' = "running"
                       ELSE process' = "exited"
    /\ last'.op = "record_audio (start)" => audio_data' = <<>> /\ recording'

\* C29: the audio callback appends a frame only while recording is true; a
\* SIGINT that arrives while recording is true sets recording to false and
\* does not exit the process; a SIGINT that arrives while recording is false
\* exits; each record_audio call starts from an empty audio_data.
C29_RecordingState ==
    [][/\ Len(audio_data') > Len(audio_data) => recording
       /\ SigintAndStart]_vars

-----------------------------------------------------------------------------
(* The tools of the server and the calls of the facade over one store *)

\* requests: each tool with and without the arguments that have a default,
\* the clear with and without the flag, and a name that is no tool
MirrorRequests ==
    {<<"store_conversation", << <<"user_message", Soy_Ana>>, <<"assistant_response", Hola_Ana>> >> >>,
     <<"store_conversation", << <<"user_message", Hola>>, <<"assistant_response", Hola_Ana>>,
                                <<"importance", 15>> >> >>,
     <<"get_context", << <<"current_message", Soy_Ana>> >> >>,
     <<"get_context", << <<"current_message", Buenos_dias>>, <<"context_limit", 1>> >> >>,
     <<"search_memory", << <<"query", <<"a", "n", "a">> >> >> >>,
     <<"search_memory", << <<"query", <<"a", "n", "a">> >>, <<"limit", 1>> >> >>,
     <<"update_profile", << <<"key", "name">>, <<"value", Juan>> >> >>,
     <<"get_profile", <<>> >>,
     <<"clear_memory", << <<"confirm", TRUE>> >> >>,
     <<"clear_memory", <<>> >>,
     <<"delete_profile", <<>> >>}

NextMirror ==
    \/ CallTool(MaxInserts, MirrorRequests)
    \/ CallFacade(MaxInserts, MirrorRequests)

SpecMirror == Init /\ [][NextMirror]_vars

====
